---- MODULE Spec2Model ----
(***************************************************************************)
(* Exact inference in discrete Bayesian networks.                          *)
(*                                                                         *)
(*  - 005_ElimVariables.py : Factor, multiply_factors, sum_out and         *)
(*    VariableEliminationSolver.infer                                      *)
(*  - 004_InterEnumeracion.py : MotorDeInferencia (inference by            *)
(*    enumeration)                                                         *)
(*                                                                         *)
(* Weights are naturals: every table of the repository is scaled by a      *)
(* fixed power of ten (or by 20) per factor, which leaves every normalised *)
(* result unchanged.  The float division val / total is kept as the exact  *)
(* rational <<val, total>>; two rationals are compared in lowest terms.    *)
(* A dict is a function from its keys; the order in which a dict or a set  *)
(* of str values is enumerated depends on the hash seed of the run and is  *)
(* a nondeterministic choice wherever the code's outcome depends on it.    *)
(***************************************************************************)
EXTENDS Integers, Sequences, FiniteSets, TLC

VARIABLES script,            \* which of the two scripts is running
          factors,           \* VariableEliminationSolver.factors
          query_var, evidence, elimination_order,   \* the arguments of infer
          working_factors,   \* infer's working list
          idx,               \* 1-based position of the elimination loop
          final_factor,      \* infer's final_factor
          var_consulta, evidencia,   \* the arguments of consultar
          distribucion_q,    \* consultar's unnormalised distribution
          resultado,         \* the mapping returned by infer / consultar
          pc,                \* position inside the running call
          err,               \* the exception raised, "none" if none
          operand1, operand2, \* the arguments of a direct multiply_factors call
          summed_var,        \* the second argument of a direct sum_out call
          retval,            \* the factor such a call returns
          estructura, objetivo, profundidad_maxima,  \* busqueda_profunda_progresiva:
          nivel_maximo,      \*   its arguments, the depth of the current sweep,
          pila_busqueda,     \*   the stack of (node, level) pairs
          visitados_en_iteracion,   \* and the nodes met in the sweep
          mapa, destino,     \* encontrar_ruta_de_costo_minimo: its arguments
          distancias,        \*   and the best known cost of each node
          red_navegador, heuristica,   \* NavegadorAEstrella: its fields red, heuristica,
          inicio, meta,      \*   the arguments of encontrar_ruta_optima
          costo_g,           \*   and the best known g of each node
          origen,            \* the start node of the two uninformed searches
          frontera,          \* the priority queue of the two best-first searches
          predecesores,      \* their predecessor dict
          resultado_modificado,  \* what a search returns
          red_directa, red_inversa,  \* BuscadorBidireccional: the graph, its reverse
          frentes,           \*   and the two fronts (cola, visitados, padres)
          juego,             \* GameSolver: players, actions, payoffs
          perfil,            \* 1-based position of find_nash_equilibrium's loop
          equilibria,        \*   and the list it builds
          problema,          \* the constraint problem a CSP script defines
          posibles_valores_corte,   \* CutsetSolver.resolver: the cutset values left
          asignacion,        \* the assignment dict its search works on
          dominios_de_trabajo,   \* the domains forward checking prunes
          llamadas,          \* the frames of the recursive calls under way
          devuelto,          \* what the call that has just ended returned
          solucion           \* what the CSP search returned

veVars == <<factors, query_var, evidence, elimination_order,
            working_factors, idx, final_factor>>

enumVars == <<var_consulta, evidencia, distribucion_q>>

algVars == <<operand1, operand2, summed_var, retval>>

idsVars == <<estructura, objetivo, profundidad_maxima, nivel_maximo,
             pila_busqueda, visitados_en_iteracion>>

ucsVars == <<mapa, destino, distancias>>

astVars == <<red_navegador, heuristica, inicio, meta, costo_g>>

sharedVars == <<origen, frontera, predecesores, resultado_modificado>>

searchVars == <<idsVars, ucsVars, astVars, sharedVars>>

bidiVars == <<red_directa, red_inversa, frentes>>

nashVars == <<juego, perfil, equilibria>>

cspVars == <<problema, posibles_valores_corte, asignacion, dominios_de_trabajo,
             llamadas, devuelto, solucion>>

lateVars == <<bidiVars, nashVars, cspVars>>

otherVars == <<algVars, searchVars, lateVars>>

vars == <<script, veVars, enumVars, resultado, pc, err, otherVars>>

-----------------------------------------------------------------------------
(* Bounds *)

MaxOrderLen == 3
MaxEvidence == 2
MaxWeight == 1

-----------------------------------------------------------------------------
(* Generic helpers: tuples, dicts, sums *)

MaxEntry == 2

MaxProfundidad == 4

MaxCosto == 2

MaxHeuristica == 2

MaxPago == 1

MaxColores == 2

MaxValores == 2

MaxHorarios == 3

MaxOpciones == 2

ToSet(s) == {s[i] : i \in 1..Len(s)}

\* tuple.index(x)
IndexOf(s, x) == CHOOSE i \in 1..Len(s) : s[i] = x /\ \A j \in 1..(i-1) : s[j] # x

\* the str order used by sorted() on the variable identifiers of the models
VarNames == <<"A", "B", "C", "D", "G", "I", "L", "X", "Y", "Z">>

\* tuple(sorted(list(S)))
Sorted(S) == SelectSeq(VarNames, LAMBDA v : v \in S)

\* dict.get(key, 0)
Get(cpt, key) == IF key \in DOMAIN cpt THEN cpt[key] ELSE 0

RECURSIVE SumOver(_, _)
\* sum of cpt[k] for k in the key set K
SumOver(cpt, K) ==
    IF K = {} THEN 0
    ELSE LET k == CHOOSE x \in K : TRUE IN cpt[k] + SumOver(cpt, K \ {k})

\* sum(cpt.values())
SumValues(cpt) == SumOver(cpt, DOMAIN cpt)

RECURSIVE Product(_)
\* itertools.product(*doms), as a set of tuples
Product(doms) ==
    IF doms = <<>> THEN {<<>>}
    ELSE {<<h>> \o t : h \in Head(doms), t \in Product(Tail(doms))}

\* assignment[:i-1] + assignment[i:]  (1-based position i removed)
DropAt(s, i) == SubSeq(s, 1, i - 1) \o SubSeq(s, i + 1, Len(s))

\* a dict literal given as a set of <<key, value>> pairs
Dict(entries) ==
    [k \in {e[1] : e \in entries} |-> (CHOOSE e \in entries : e[1] = k)[2]]

-----------------------------------------------------------------------------
(* Factor and the factor algebra *)

Factor(variables, cpt) == [variables |-> variables, cpt |-> cpt]

\* values seen for var in the table keys of factor f (lines 28-33)
SeenValues(f, var) ==
    {k[i] : k \in DOMAIN f.cpt,
            i \in {j \in 1..Len(f.variables) : f.variables[j] = var}}

\* multiply_factors with the second domain loop (lines 31-33) left out
multiply_factors_first_domains(factor1, factor2) ==
    LET vars1 == ToSet(factor1.variables)
        vars2 == ToSet(factor2.variables)
        new_vars == Sorted(vars1 \cup vars2)
        var_domains == [var \in ToSet(new_vars) |-> SeenValues(factor1, var)]
        assignments == Product([i \in 1..Len(new_vars) |-> var_domains[new_vars[i]]])
        key1(a) == [i \in 1..Len(factor1.variables) |->
                      a[IndexOf(new_vars, factor1.variables[i])]]
        key2(a) == [i \in 1..Len(factor2.variables) |->
                      a[IndexOf(new_vars, factor2.variables[i])]]
    IN  Factor(new_vars,
               [a \in assignments |->
                   Get(factor1.cpt, key1(a)) * Get(factor2.cpt, key2(a))])

\* multiply_factors with line 23 keeping the scopes in the order met
\* (factor1's variables, then the new ones of factor2) instead of sorting
multiply_factors_unsorted(factor1, factor2) ==
    LET new_vars == factor1.variables
                      \o SelectSeq(factor2.variables,
                                   LAMBDA v : v \notin ToSet(factor1.variables))
        var_domains == [var \in ToSet(new_vars) |->
                          SeenValues(factor1, var) \cup SeenValues(factor2, var)]
        assignments == Product([i \in 1..Len(new_vars) |-> var_domains[new_vars[i]]])
        key1(a) == [i \in 1..Len(factor1.variables) |->
                      a[IndexOf(new_vars, factor1.variables[i])]]
        key2(a) == [i \in 1..Len(factor2.variables) |->
                      a[IndexOf(new_vars, factor2.variables[i])]]
    IN  Factor(new_vars,
               [a \in assignments |->
                   Get(factor1.cpt, key1(a)) * Get(factor2.cpt, key2(a))])

multiply_factors(factor1, factor2) ==
    LET vars1 == ToSet(factor1.variables)
        vars2 == ToSet(factor2.variables)
        new_vars == Sorted(vars1 \cup vars2)
        var_domains == [var \in ToSet(new_vars) |->
                          SeenValues(factor1, var) \cup SeenValues(factor2, var)]
        assignments == Product([i \in 1..Len(new_vars) |-> var_domains[new_vars[i]]])
        key1(a) == [i \in 1..Len(factor1.variables) |->
                      a[IndexOf(new_vars, factor1.variables[i])]]
        key2(a) == [i \in 1..Len(factor2.variables) |->
                      a[IndexOf(new_vars, factor2.variables[i])]]
    IN  Factor(new_vars,
               [a \in assignments |->
                   Get(factor1.cpt, key1(a)) * Get(factor2.cpt, key2(a))])

\* sum_out with line 60 storing the entry instead of adding it
sum_out_overwrite(factor, variable) ==
    IF variable \notin ToSet(factor.variables) THEN factor
    ELSE LET var_index == IndexOf(factor.variables, variable)
             new_vars == DropAt(factor.variables, var_index)
             new_keys == {DropAt(a, var_index) : a \in DOMAIN factor.cpt}
         IN  Factor(new_vars,
                    [nk \in new_keys |->
                        factor.cpt[CHOOSE a \in DOMAIN factor.cpt :
                                      DropAt(a, var_index) = nk]])

\* sum_out with line 59 dropping the first component of the key, whatever
\* the position of the variable
sum_out_drop_first(factor, variable) ==
    IF variable \notin ToSet(factor.variables) THEN factor
    ELSE LET var_index == IndexOf(factor.variables, variable)
             new_vars == DropAt(factor.variables, var_index)
             new_keys == {DropAt(a, 1) : a \in DOMAIN factor.cpt}
         IN  Factor(new_vars,
                    [nk \in new_keys |->
                        SumOver(factor.cpt,
                                {a \in DOMAIN factor.cpt : DropAt(a, 1) = nk})])

\* sum_out with line 59 storing the entry under the whole assignment: the
\* scope loses the variable, the keys keep its value
sum_out_keeping_keys(factor, variable) ==
    IF variable \notin ToSet(factor.variables) THEN factor
    ELSE LET var_index == IndexOf(factor.variables, variable)
             new_vars == DropAt(factor.variables, var_index)
         IN  Factor(new_vars, factor.cpt)

sum_out(factor, variable) ==
    IF variable \notin ToSet(factor.variables) THEN factor
    ELSE LET var_index == IndexOf(factor.variables, variable)
             new_vars == DropAt(factor.variables, var_index)
             new_keys == {DropAt(a, var_index) : a \in DOMAIN factor.cpt}
         IN  Factor(new_vars,
                    [nk \in new_keys |->
                        SumOver(factor.cpt,
                                {a \in DOMAIN factor.cpt : DropAt(a, var_index) = nk})])

-----------------------------------------------------------------------------
(* The steps of VariableEliminationSolver.infer *)

\* is_consistent of lines 77-81
IsConsistent(f, assignment, ev) ==
    ~ \E i \in 1..Len(f.variables) :
         /\ f.variables[i] \in DOMAIN ev
         /\ ev[f.variables[i]] # assignment[i]

\* the reduction storing weight 0 for an inconsistent entry
ReduceFactor_zeroing(f, ev) ==
    Factor(f.variables,
           [a \in DOMAIN f.cpt |-> IF IsConsistent(f, a, ev) THEN f.cpt[a] ELSE 0])

\* the reduction with new_cpt starting as a copy of the table, every
\* consistent entry then added to it
ReduceFactor_accumulating(f, ev) ==
    Factor(f.variables,
           [a \in DOMAIN f.cpt |->
               f.cpt[a] + (IF IsConsistent(f, a, ev) THEN f.cpt[a] ELSE 0)])

\* lines 75-84 for one factor
ReduceFactor(f, ev) ==
    LET kept == {a \in DOMAIN f.cpt : IsConsistent(f, a, ev)}
    IN  Factor(f.variables, [a \in kept |-> f.cpt[a]])

\* lines 73-84
ApplyEvidenceTo(fs, ev) == [i \in 1..Len(fs) |-> ReduceFactor(fs[i], ev)]

RECURSIVE MultiplyAll(_, _)
\* the left fold of lines 92-94 and 101-103: acc * fs[1] * fs[2] * ...
MultiplyAll(acc, fs) ==
    IF fs = <<>> THEN acc
    ELSE MultiplyAll(multiply_factors(acc, Head(fs)), Tail(fs))

HasVar(f, v) == v \in ToSet(f.variables)

\* the step with line 89 left out: the factors that contain the variable
\* stay in the working list
EliminateStep_keeping(wf, var_to_eliminate) ==
    LET factors_with_var == SelectSeq(wf, LAMBDA f : HasVar(f, var_to_eliminate))
        product_factor == MultiplyAll(Head(factors_with_var), Tail(factors_with_var))
        new_factor == sum_out(product_factor, var_to_eliminate)
    IN  Append(wf, new_factor)

\* lines 88-98: the working list after the step for var_to_eliminate;
\* only used when some working factor contains the variable
EliminateStep(wf, var_to_eliminate) ==
    LET factors_with_var == SelectSeq(wf, LAMBDA f : HasVar(f, var_to_eliminate))
        rest == SelectSeq(wf, LAMBDA f : ~ HasVar(f, var_to_eliminate))
        product_factor == MultiplyAll(Head(factors_with_var), Tail(factors_with_var))
        new_factor == sum_out(product_factor, var_to_eliminate)
    IN  Append(rest, new_factor)

-----------------------------------------------------------------------------
(* The models handed to the solver *)

\* lines 110-120, each table scaled to naturals (x5, x10, x10, x20)
DemoFactors ==
    << Factor(<<"D">>, Dict({ <<<<"Alta">>, 3>>, <<<<"Baja">>, 2>> })),
       Factor(<<"I">>, Dict({ <<<<"Alta">>, 7>>, <<<<"Baja">>, 3>> })),
       Factor(<<"I", "L">>,
              Dict({ <<<<"Alta", "Fuerte">>, 8>>, <<<<"Alta", "Debil">>, 2>>,
                     <<<<"Baja", "Fuerte">>, 3>>, <<<<"Baja", "Debil">>, 7>> })),
       Factor(<<"D", "I", "G">>,
              Dict({ <<<<"Alta", "Alta", "A">>, 6>>,  <<<<"Alta", "Alta", "B">>, 14>>,
                     <<<<"Alta", "Baja", "A">>, 1>>,  <<<<"Alta", "Baja", "B">>, 19>>,
                     <<<<"Baja", "Alta", "A">>, 18>>, <<<<"Baja", "Alta", "B">>, 2>>,
                     <<<<"Baja", "Baja", "A">>, 10>>, <<<<"Baja", "Baja", "B">>, 10>> })) >>

\* the chain A -> B -> C carrying the tables of ESTRUCTURA_ALARMA
\* (Robo, Alarma, JuanLlama), scaled x1000, x100, x20
ChainFactors ==
    << Factor(<<"A">>, Dict({ <<<<"true">>, 1>>, <<<<"false">>, 999>> })),
       Factor(<<"A", "B">>,
              Dict({ <<<<"true", "true">>, 95>>, <<<<"true", "false">>, 5>>,
                     <<<<"false", "true">>, 1>>, <<<<"false", "false">>, 99>> })),
       Factor(<<"B", "C">>,
              Dict({ <<<<"true", "true">>, 18>>, <<<<"true", "false">>, 2>>,
                     <<<<"false", "true">>, 1>>, <<<<"false", "false">>, 19>> })) >>

\* a two-variable model with an unsorted scope and weights down to 0
SmallFactors(w) ==
    << Factor(<<"X">>, Dict({ <<<<"x0">>, w>>, <<<<"x1">>, 2>> })),
       Factor(<<"Y", "X">>,
              Dict({ <<<<"y0", "x0">>, 1>>, <<<<"y1", "x0">>, 3>>,
                     <<<<"y0", "x1">>, 2>>, <<<<"y1", "x1">>, w>> })) >>

Models == {DemoFactors, ChainFactors, <<>>} \cup {SmallFactors(w) : w \in 0..MaxWeight}

\* the variables of a model: the union of the scopes
ModelVars(fs) == UNION {ToSet(fs[i].variables) : i \in 1..Len(fs)}

\* the domain of a variable: the values seen for it in any table
VarDomain(fs, v) == UNION {SeenValues(fs[i], v) : i \in 1..Len(fs)}

AllValues(fs) == UNION {VarDomain(fs, v) : v \in ModelVars(fs)}

\* a variable that occurs in no model, and a value that occurs in no table
AbsentVar == "Z"
UnseenValue == "Unseen"

QueryVars(fs) == IF fs = <<>> THEN {AbsentVar} ELSE ModelVars(fs)

Evidences(fs) ==
    UNION { {e \in [S -> AllValues(fs) \cup {UnseenValue}] :
                \A v \in S : e[v] \in VarDomain(fs, v) \cup {UnseenValue}} :
            S \in {T \in SUBSET ModelVars(fs) : Cardinality(T) <= MaxEvidence} }

Orders(fs) ==
    UNION { [1..n -> ModelVars(fs) \cup {AbsentVar}] : n \in 0..MaxOrderLen }

-----------------------------------------------------------------------------
(* State machine *)

NoFactor == Factor(<<>>, <<>>)

\* no direct call of multiply_factors or sum_out is under way
AlgIdle ==
    /\ operand1 = NoFactor
    /\ operand2 = NoFactor
    /\ summed_var = ""
    /\ retval = NoFactor

\* busqueda_profunda_progresiva is not running
IdsIdle ==
    /\ estructura = <<>>
    /\ objetivo = ""
    /\ profundidad_maxima = 0
    /\ nivel_maximo = 0
    /\ pila_busqueda = <<>>
    /\ visitados_en_iteracion = {}

\* encontrar_ruta_de_costo_minimo is not running
UcsIdle ==
    /\ mapa = <<>>
    /\ destino = ""
    /\ distancias = <<>>

\* no NavegadorAEstrella exists
AstIdle ==
    /\ red_navegador = <<>>
    /\ heuristica = <<>>
    /\ inicio = ""
    /\ meta = ""
    /\ costo_g = <<>>

\* what the searches share is at rest
SharedIdle ==
    /\ origen = ""
    /\ frontera = {}
    /\ predecesores = <<>>
    /\ resultado_modificado = <<>>

\* no BuscadorBidireccional exists
BidiIdle ==
    /\ red_directa = <<>>
    /\ red_inversa = <<>>
    /\ frentes = <<>>

\* no GameSolver exists
NashIdle ==
    /\ juego = <<>>
    /\ perfil = 0
    /\ equilibria = <<>>

\* no constraint problem is being solved
CspIdle ==
    /\ problema = <<>>
    /\ posibles_valores_corte = <<>>
    /\ asignacion = <<>>
    /\ dominios_de_trabajo = <<>>
    /\ llamadas = <<>>
    /\ devuelto = <<>>
    /\ solucion = <<>>

LateIdle == BidiIdle /\ NashIdle /\ CspIdle

OthersIdle == AlgIdle /\ IdsIdle /\ UcsIdle /\ AstIdle /\ SharedIdle /\ LateIdle

ElimVariables == "005_ElimVariables.py"
InterEnumeracion == "004_InterEnumeracion.py"

Init ==
    /\ \/ script = ElimVariables /\ factors \in Models
       \/ script = InterEnumeracion /\ factors = <<>>
    /\ var_consulta = ""
    /\ evidencia = <<>>
    /\ distribucion_q = <<>>
    /\ query_var = ""
    /\ evidence = <<>>
    /\ elimination_order = <<>>
    /\ working_factors = <<>>
    /\ idx = 0
    /\ final_factor = NoFactor
    /\ resultado = <<>>
    /\ pc = "idle"
    /\ err = "none"
    /\ OthersIdle

\* solver.infer(query_var, evidence, elimination_order) is entered
Call(q, e, o) ==
    /\ UNCHANGED otherVars
    /\ pc = "idle"
    /\ script = ElimVariables
    /\ query_var' = q
    /\ evidence' = e
    /\ elimination_order' = o
    /\ working_factors' = <<>>
    /\ idx' = 0
    /\ final_factor' = NoFactor
    /\ resultado' = <<>>
    /\ pc' = "reduce"
    /\ err' = "none"
    /\ UNCHANGED <<script, factors, enumVars>>

\* step 1 deleting the inconsistent entries from the solver's own factors
\* instead of building new tables
ApplyEvidence_inplace ==
    /\ UNCHANGED otherVars
    /\ pc = "reduce"
    /\ factors' = ApplyEvidenceTo(factors, evidence)
    /\ working_factors' = factors'
    /\ idx' = 1
    /\ pc' = "eliminate"
    /\ UNCHANGED <<script, enumVars, query_var, evidence, elimination_order,
                   final_factor, resultado, err>>

\* step 1, lines 72-84
ApplyEvidence ==
    /\ UNCHANGED otherVars
    /\ pc = "reduce"
    /\ working_factors' = ApplyEvidenceTo(factors, evidence)
    /\ idx' = 1
    /\ pc' = "eliminate"
    /\ UNCHANGED <<script, enumVars, factors, query_var, evidence, elimination_order,
                   final_factor, resultado, err>>

\* step 2, one iteration of the loop of lines 87-98
Eliminate ==
    /\ UNCHANGED otherVars
    /\ pc = "eliminate"
    /\ idx <= Len(elimination_order)
    /\ LET v == elimination_order[idx] IN
         IF \A i \in 1..Len(working_factors) : ~ HasVar(working_factors[i], v)
         THEN \* factors_with_var[0] on an empty list
              /\ pc' = "error"
              /\ err' = "IndexError: factors_with_var[0]"
              /\ UNCHANGED <<working_factors, idx>>
         ELSE /\ working_factors' = EliminateStep(working_factors, v)
              /\ idx' = idx + 1
              /\ UNCHANGED <<pc, err>>
    /\ UNCHANGED <<script, enumVars, factors, query_var, evidence, elimination_order,
                   final_factor, resultado>>

\* step 3, lines 100-103
CombineRemaining ==
    /\ UNCHANGED otherVars
    /\ pc = "eliminate"
    /\ idx > Len(elimination_order)
    /\ IF working_factors = <<>>
       THEN \* working_factors[0] on an empty list
            /\ pc' = "error"
            /\ err' = "IndexError: working_factors[0]"
            /\ UNCHANGED final_factor
       ELSE /\ final_factor' = MultiplyAll(Head(working_factors), Tail(working_factors))
            /\ pc' = "normalize"
            /\ UNCHANGED err
    /\ UNCHANGED <<script, enumVars, factors, query_var, evidence, elimination_order,
                   working_factors, idx, resultado>>

\* the dicts {key[0]: val / total ...} can evaluate to: for every first
\* component, the entry enumerated last among those that share it survives
NormalizedDicts(cpt, total) ==
    LET firsts == {key[1] : key \in DOMAIN cpt}
    IN  { [g \in firsts |-> <<cpt[last[g]], total>>] :
            last \in {l \in [firsts -> DOMAIN cpt] : \A g \in firsts : l[g][1] = g} }

Returned(r) == [pc |-> "done", err |-> "none", resultado |-> r]
Raised(e) == [pc |-> "error", err |-> e, resultado |-> <<>>]

\* lines 105-107: the ways the normalization of final_factor can end
NormalizeOutcomes(ff) ==
    LET cpt == ff.cpt
        total == SumValues(cpt)
    IN  IF cpt = <<>>
        THEN \* nothing to iterate over: no division happens
             {Returned(<<>>)}
        ELSE IF \E key \in DOMAIN cpt : Len(key) = 0
        THEN {Raised("IndexError: key[0]")}
        ELSE IF total = 0
        THEN {Raised("ZeroDivisionError")}
        ELSE {Returned(r) : r \in NormalizedDicts(cpt, total)}

\* step 4, lines 105-107
Normalize ==
    /\ UNCHANGED otherVars
    /\ pc = "normalize"
    /\ \E out \in NormalizeOutcomes(final_factor) :
          /\ resultado' = out.resultado
          /\ pc' = out.pc
          /\ err' = out.err
    /\ UNCHANGED <<script, enumVars, factors, query_var, evidence, elimination_order,
                   working_factors, idx, final_factor>>

-----------------------------------------------------------------------------
(* MotorDeInferencia: inference by enumeration *)

\* lines 75-87; the tables scaled to naturals (x1000, x100, x20).  The code
\* keeps 'valores' and the table rows in one dict; here they are two fields.
ESTRUCTURA_ALARMA ==
    [ nodos  |-> <<"Robo", "Alarma", "JuanLlama">>,
      padres |-> [Robo |-> <<>>, Alarma |-> <<"Robo">>, JuanLlama |-> <<"Alarma">>],
      cpts   |-> [Robo      |-> [valores |-> <<"Si", "No">>,
                                 tabla   |-> [Si |-> 1, No |-> 999]],
                  Alarma    |-> [valores |-> <<"Si", "No">>,
                                 tabla   |-> Dict({ << <<"Si">>, [Si |-> 95, No |-> 5] >>,
                                                    << <<"No">>, [Si |-> 1,  No |-> 99] >> })],
                  JuanLlama |-> [valores |-> <<"Si", "No">>,
                                 tabla   |-> Dict({ << <<"Si">>, [Si |-> 18, No |-> 2] >>,
                                                    << <<"No">>, [Si |-> 1,  No |-> 19] >> })]] ]

\* d.copy() followed by d[k] = v
Extend(d, k, v) == [x \in DOMAIN d \cup {k} |-> IF x = k THEN v ELSE d[x]]

\* lines 19-30
ObtenerProbabilidad(red, variable, valor, ev) ==
    LET padres_de_var == red.padres[variable]
    IN  IF padres_de_var = <<>>
        THEN red.cpts[variable].tabla[valor]
        ELSE LET configuracion_padres ==
                     [i \in 1..Len(padres_de_var) |-> ev[padres_de_var[i]]]
             IN  red.cpts[variable].tabla[configuracion_padres][valor]

RECURSIVE EnumerarTodo(_, _, _)
\* lines 32-55
EnumerarTodo(red, variables, ev) ==
    IF variables = <<>> THEN 1
    ELSE LET primera == Head(variables)
             resto == Tail(variables)
         IN  IF primera \in DOMAIN ev
             THEN ObtenerProbabilidad(red, primera, ev[primera], ev)
                    * EnumerarTodo(red, resto, ev)
             ELSE LET termino ==
                          [valor \in ToSet(red.cpts[primera].valores) |->
                              LET evidencia_extendida == Extend(ev, primera, valor)
                              IN  ObtenerProbabilidad(red, primera, valor, evidencia_extendida)
                                    * EnumerarTodo(red, resto, evidencia_extendida)]
                  IN  SumValues(termino)

\* lines 57-72 as one function of its arguments (total is non-zero for
\* ESTRUCTURA_ALARMA: every weight is positive)
Consultar(red, v, e) ==
    LET dq == [valor \in ToSet(red.cpts[v].valores) |->
                  EnumerarTodo(red, red.nodos, Extend(e, v, valor))]
        total == SumValues(dq)
    IN  [valor \in DOMAIN dq |-> <<dq[valor], total>>]

Evidencias(red) ==
    UNION { [S -> {"Si", "No"}] :
            S \in {T \in SUBSET ToSet(red.nodos) : Cardinality(T) <= MaxEvidence} }

\* motor_inferencia.consultar(v, e) is entered
ConsultarCall(v, e) ==
    /\ UNCHANGED otherVars
    /\ pc = "idle"
    /\ script = InterEnumeracion
    /\ var_consulta' = v
    /\ evidencia' = e
    /\ distribucion_q' = <<>>
    /\ pc' = "enumerar"
    /\ UNCHANGED <<script, veVars, resultado, err>>

\* one iteration of the loop of lines 64-68
EnumerarValor ==
    /\ UNCHANGED otherVars
    /\ pc = "enumerar"
    /\ LET valores == ESTRUCTURA_ALARMA.cpts[var_consulta].valores
           k == Cardinality(DOMAIN distribucion_q) + 1
       IN  /\ k <= Len(valores)
           /\ distribucion_q' =
                 Extend(distribucion_q, valores[k],
                        EnumerarTodo(ESTRUCTURA_ALARMA, ESTRUCTURA_ALARMA.nodos,
                                     Extend(evidencia, var_consulta, valores[k])))
    /\ UNCHANGED <<script, veVars, var_consulta, evidencia, resultado, pc, err>>

\* lines 70-72
Normalizar ==
    /\ UNCHANGED otherVars
    /\ pc = "enumerar"
    /\ Cardinality(DOMAIN distribucion_q)
          = Len(ESTRUCTURA_ALARMA.cpts[var_consulta].valores)
    /\ LET total == SumValues(distribucion_q)
       IN  IF total = 0
           THEN /\ pc' = "error"
                /\ err' = "ZeroDivisionError"
                /\ UNCHANGED resultado
           ELSE /\ resultado' = [valor \in DOMAIN distribucion_q |->
                                   <<distribucion_q[valor], total>>]
                /\ pc' = "done"
                /\ UNCHANGED err
    /\ UNCHANGED <<script, veVars, enumVars>>

\* the call has returned or raised; the script is ready for the next call
Return ==
    /\ UNCHANGED otherVars
    /\ pc \in {"done", "error"}
    /\ var_consulta' = ""
    /\ evidencia' = <<>>
    /\ distribucion_q' = <<>>
    /\ query_var' = ""
    /\ evidence' = <<>>
    /\ elimination_order' = <<>>
    /\ working_factors' = <<>>
    /\ idx' = 0
    /\ final_factor' = NoFactor
    /\ resultado' = <<>>
    /\ pc' = "idle"
    /\ err' = "none"
    /\ UNCHANGED <<script, factors>>

Next ==
    \/ /\ pc = "idle"
       /\ \E q \in QueryVars(factors), e \in Evidences(factors), o \in Orders(factors) :
             Call(q, e, o)
    \/ ApplyEvidence
    \/ Eliminate
    \/ CombineRemaining
    \/ Normalize
    \/ /\ pc = "idle"
       /\ \E v \in ToSet(ESTRUCTURA_ALARMA.nodos), e \in Evidencias(ESTRUCTURA_ALARMA) :
             ConsultarCall(v, e)
    \/ EnumerarValor
    \/ Normalizar
    \/ Return

Spec == Init /\ [][Next]_vars

-----------------------------------------------------------------------------
(* multiply_factors and sum_out called directly on two factors             *)

\* the tables a scope can carry: any part of its candidate keys, each entry
\* a weight up to MaxEntry
TablesOver(keys) ==
    UNION { [K -> 0..MaxEntry] : K \in SUBSET keys }

\* the operands: factors over (), (X), (Y) and the unsorted scope (Y, X),
\* with full, sparse and empty tables
FactorInputs ==
    {Factor(<<>>, t) : t \in TablesOver({<<>>})}
    \cup {Factor(<<"X">>, t) : t \in TablesOver({<<"x0">>, <<"x1">>})}
    \cup {Factor(<<"Y">>, t) : t \in TablesOver({<<"y0">>, <<"y1">>})}
    \cup {Factor(<<"Y", "X">>, t) :
             t \in TablesOver({<<"y0", "x0">>, <<"y0", "x1">>, <<"y1", "x0">>})}

\* no infer or consultar call is under way
CallsIdle ==
    /\ var_consulta = ""
    /\ evidencia = <<>>
    /\ distribucion_q = <<>>
    /\ query_var = ""
    /\ evidence = <<>>
    /\ elimination_order = <<>>
    /\ working_factors = <<>>
    /\ idx = 0
    /\ final_factor = NoFactor
    /\ resultado = <<>>
    /\ err = "none"

InitFactors ==
    /\ script = ElimVariables
    /\ factors = <<>>
    /\ CallsIdle
    /\ LateIdle
    /\ operand1 \in FactorInputs
    /\ operand2 \in FactorInputs
    /\ summed_var \in {"X", "Y", AbsentVar}
    /\ retval = NoFactor
    /\ IdsIdle /\ UcsIdle /\ AstIdle /\ SharedIdle
    /\ pc = "idle"

\* multiply_factors(operand1, operand2), lines 18-47
MultiplyCall ==
    /\ pc = "idle"
    /\ retval' = multiply_factors(operand1, operand2)
    /\ pc' = "multiplied"
    /\ UNCHANGED <<script, veVars, enumVars, lateVars, resultado, err,
                   operand1, operand2, summed_var, searchVars>>

\* sum_out(operand1, summed_var), lines 49-62
SumOutCall ==
    /\ pc = "idle"
    /\ retval' = sum_out(operand1, summed_var)
    /\ pc' = "summed"
    /\ UNCHANGED <<script, veVars, enumVars, lateVars, resultado, err,
                   operand1, operand2, summed_var, searchVars>>

NextFactors == MultiplyCall \/ SumOutCall

SpecFactors == InitFactors /\ [][NextFactors]_vars

\* the position of variable v in the str order of the identifiers
Rank(v) == IndexOf(VarNames, v)

\* the entry of f at the joint assignment a over scope, 0 when f has none
EntryAt(f, scope, a) ==
    LET key == [i \in 1..Len(f.variables) |->
                  a[CHOOSE j \in 1..Len(scope) : scope[j] = f.variables[i]]]
    IN  IF key \in DOMAIN f.cpt THEN f.cpt[key] ELSE 0

\* C12: multiply_factors(f1, f2) returns a factor whose scope is the sorted
\* union of both scopes and whose table holds, for every joint assignment
\* over that scope (each variable ranging over the values seen for it in
\* either table), the product of f1's and f2's entries at the projected
\* assignments, an absent entry counting as weight 0.
C12_ProductFactor ==
    pc = "multiplied"
    => LET sc == retval.variables
           n == Len(sc)
           seen(v) == SeenValues(operand1, v) \cup SeenValues(operand2, v)
       IN  /\ ToSet(sc) = ToSet(operand1.variables) \cup ToSet(operand2.variables)
           /\ \A i \in 1..(n - 1) : Rank(sc[i]) < Rank(sc[i + 1])
           /\ DOMAIN retval.cpt
                = {a \in [1..n -> {"x0", "x1", "y0", "y1"}] :
                      \A i \in 1..n : a[i] \in seen(sc[i])}
           /\ \A a \in DOMAIN retval.cpt :
                 retval.cpt[a] = EntryAt(operand1, sc, a) * EntryAt(operand2, sc, a)

\* a product over (X, Y) of an (X) factor and a sparse (Y, X) factor: some
\* entry is a product of two weights above 1, another comes from an entry
\* absent from an operand
C12_Witness ==
    /\ pc = "multiplied"
    /\ operand1.variables = <<"X">>
    /\ operand2.variables = <<"Y", "X">>
    /\ retval.variables = <<"X", "Y">>
    /\ \E a \in DOMAIN retval.cpt : retval.cpt[a] = 4
    /\ \E a \in DOMAIN retval.cpt :
          /\ <<a[2], a[1]>> \notin DOMAIN operand2.cpt
          /\ retval.cpt[a] = 0

\* C13: sum_out(f, v) returns f itself when v is not in f's scope; otherwise
\* a factor whose scope is f's scope without v, in the same relative order,
\* and whose entry for each projected assignment is the sum of all entries
\* of f that project onto it.
C13_SumOut ==
    pc = "summed"
    => IF \A i \in 1..Len(operand1.variables) : operand1.variables[i] # summed_var
       THEN retval = operand1
       ELSE LET p == CHOOSE i \in 1..Len(operand1.variables) :
                        operand1.variables[i] = summed_var
                proj(a) == [i \in 1..(Len(a) - 1) |-> IF i < p THEN a[i] ELSE a[i + 1]]
            IN  /\ retval.variables
                     = SelectSeq(operand1.variables, LAMBDA v : v # summed_var)
                /\ DOMAIN retval.cpt = {proj(a) : a \in DOMAIN operand1.cpt}
                /\ \A k \in DOMAIN retval.cpt :
                      retval.cpt[k]
                        = SumOver(operand1.cpt,
                                  {a \in DOMAIN operand1.cpt : proj(a) = k})

\* X summed out of a (Y, X) factor: two entries have been added into one
C13_Witness ==
    /\ pc = "summed"
    /\ operand1.variables = <<"Y", "X">>
    /\ summed_var = "X"
    /\ retval.variables = <<"Y">>
    /\ <<"y0">> \in DOMAIN retval.cpt
    /\ retval.cpt[<<"y0">>] = 3

\* sum_out asked for a variable outside the scope has handed the factor back
C13_WitnessAbsent ==
    /\ pc = "summed"
    /\ operand1.variables = <<"Y", "X">>
    /\ DOMAIN operand1.cpt # {}
    /\ summed_var = AbsentVar
    /\ retval = operand1

-----------------------------------------------------------------------------
(* 005_BusquedaProfInter.py : busqueda_profunda_progresiva                  *)

BusquedaProfInter == "005_BusquedaProfInter.py"

\* the str order of the node names (heap ties of the best-first searches)
NodeNames == <<"A", "B", "C", "D", "E", "F", "G">>

\* the edges a graph handed to busqueda_profunda_progresiva can have, in the
\* order of the adjacency lists; the first six are the edges of 'mapa'
AristasPosibles ==
    << <<"A", "B">>, <<"A", "C">>, <<"B", "D">>, <<"C", "E">>, <<"C", "F">>,
       <<"D", "G">>, <<"D", "E">>, <<"E", "G">>, <<"E", "B">> >>

\* the dict node -> list of successors with the edges S
EstructuraCon(S) ==
    [n \in ToSet(NodeNames) |->
        LET salientes == SelectSeq(AristasPosibles, LAMBDA e : e \in S /\ e[1] = n)
        IN  [i \in 1..Len(salientes) |-> salientes[i][2]]]

\* lines 60-68
mapa_jerarquico ==
    EstructuraCon({AristasPosibles[i] : i \in 1..6})

Estructuras == {EstructuraCon(S) : S \in SUBSET ToSet(AristasPosibles)}

\* estructura.get(n, [])
Sucesores(g, n) == IF n \in DOMAIN g THEN g[n] ELSE <<>>

Reverse(s) == [i \in 1..Len(s) |-> s[Len(s) + 1 - i]]

RECURSIVE Expandir(_, _, _, _)
\* the loop of lines 44-47 over the successors sucs (already reversed)
Expandir(sucs, visitados, pila, nivel) ==
    IF sucs = <<>> THEN [pila |-> pila, visitados |-> visitados]
    ELSE IF Head(sucs) \notin visitados
    THEN Expandir(Tail(sucs), visitados \cup {Head(sucs)},
                  Append(pila, <<Head(sucs), nivel + 1>>), nivel)
    ELSE Expandir(Tail(sucs), visitados, pila, nivel)

\* the two strings busqueda_profunda_progresiva returns, by what they say
Exito(nivel) == [exito |-> TRUE, nivel |-> nivel]
NoHallado(limite) == [exito |-> FALSE, nivel |-> limite]

InitProfInter ==
    /\ script = BusquedaProfInter
    /\ factors = <<>>
    /\ CallsIdle
    /\ LateIdle
    /\ AlgIdle /\ UcsIdle /\ AstIdle
    /\ estructura \in Estructuras
    /\ origen = "A"
    /\ objetivo \in {"A", "E", "G"}
    /\ profundidad_maxima \in 0..MaxProfundidad
    /\ nivel_maximo = 0
    /\ pila_busqueda = <<>>
    /\ visitados_en_iteracion = {}
    /\ frontera = {}
    /\ predecesores = <<>>
    /\ resultado_modificado = <<>>
    /\ pc = "for"

\* lines 18-29: the next sweep starts
IniciarBarrido ==
    /\ pc = "for"
    /\ nivel_maximo <= profundidad_maxima
    /\ pila_busqueda' = << <<origen, 0>> >>
    /\ visitados_en_iteracion' = {origen}
    /\ pc' = "while"
    /\ UNCHANGED <<script, veVars, enumVars, lateVars, resultado, err, algVars, ucsVars, astVars,
                   estructura, objetivo, profundidad_maxima, nivel_maximo,
                   origen, frontera, predecesores, resultado_modificado>>

\* lines 32-47: one iteration of the while loop
Explorar ==
    /\ pc = "while"
    /\ pila_busqueda # <<>>
    /\ LET cima == pila_busqueda[Len(pila_busqueda)]
           posicion_actual == cima[1]
           nivel_actual == cima[2]
           resto == SubSeq(pila_busqueda, 1, Len(pila_busqueda) - 1)
       IN  IF posicion_actual = objetivo
           THEN /\ resultado_modificado' = Exito(nivel_maximo)
                /\ pc' = "done"
                /\ pila_busqueda' = resto
                /\ UNCHANGED visitados_en_iteracion
           ELSE IF nivel_actual < nivel_maximo
           THEN LET x == Expandir(Reverse(Sucesores(estructura, posicion_actual)),
                                  visitados_en_iteracion, resto, nivel_actual)
                IN  /\ pila_busqueda' = x.pila
                    /\ visitados_en_iteracion' = x.visitados
                    /\ UNCHANGED <<pc, resultado_modificado>>
           ELSE /\ pila_busqueda' = resto
                /\ UNCHANGED <<pc, resultado_modificado, visitados_en_iteracion>>
    /\ UNCHANGED <<script, veVars, enumVars, lateVars, resultado, err, algVars, ucsVars, astVars,
                   estructura, objetivo, profundidad_maxima, nivel_maximo,
                   origen, frontera, predecesores>>

\* the stack is empty: the sweep is over, the for loop goes on
FinBarrido ==
    /\ pc = "while"
    /\ pila_busqueda = <<>>
    /\ nivel_maximo' = nivel_maximo + 1
    /\ pc' = "for"
    /\ UNCHANGED <<script, veVars, enumVars, lateVars, resultado, err, algVars, ucsVars, astVars,
                   estructura, objetivo, profundidad_maxima, pila_busqueda,
                   visitados_en_iteracion, origen, frontera, predecesores,
                   resultado_modificado>>

\* line 55: every sweep up to profundidad_maxima has failed
NoEncontrado ==
    /\ pc = "for"
    /\ nivel_maximo > profundidad_maxima
    /\ resultado_modificado' = NoHallado(profundidad_maxima)
    /\ pc' = "done"
    /\ UNCHANGED <<script, veVars, enumVars, lateVars, resultado, err, algVars, ucsVars, astVars,
                   idsVars, origen, frontera, predecesores>>

NextProfInter == IniciarBarrido \/ Explorar \/ FinBarrido \/ NoEncontrado

SpecProfInter == InitProfInter /\ [][NextProfInter]_vars

RECURSIVE Dentro(_, _, _)
\* the nodes at most k edges away from a node of S
Dentro(g, S, k) ==
    IF k = 0 THEN S
    ELSE Dentro(g, S \cup UNION {ToSet(Sucesores(g, n)) : n \in S}, k - 1)

\* the number of edges of a shortest path from a to b, -1 when there is none
LongitudMinima(g, a, b) ==
    LET ks == {k \in 0..Len(NodeNames) : b \in Dentro(g, {a}, k)}
    IN  IF ks = {} THEN -1 ELSE CHOOSE k \in ks : \A j \in ks : k <= j

\* C18: when busqueda_profunda_progresiva reports success, the level it
\* reports is the number of edges of a shortest path from origen to objetivo.
C18_NivelEsMinimo ==
    (script = BusquedaProfInter /\ pc = "done" /\ resultado_modificado.exito)
    => resultado_modificado.nivel = LongitudMinima(estructura, origen, objetivo)

-----------------------------------------------------------------------------
(* 002_BusquedaCostoUniforme.py : encontrar_ruta_de_costo_minimo            *)

BusquedaCostoUniforme == "002_BusquedaCostoUniforme.py"

\* Python's None
NoneVal == "None"

\* a dict node -> {neighbour: cost} literal: each inner dict is the sequence
\* of its <<neighbour, cost>> items in insertion order
\* lines 78-86
mapa_con_costos ==
    [A |-> << <<"B", 1>>, <<"C", 4>> >>,
     B |-> << <<"D", 5>>, <<"E", 2>> >>,
     C |-> << <<"F", 3>> >>,
     D |-> << <<"G", 1>> >>,
     E |-> << <<"G", 8>> >>,
     F |-> <<>>,
     G |-> <<>>]

\* the edges a map over A..D can have, in insertion order
TramosPosibles ==
    << <<"A", "B">>, <<"A", "C">>, <<"B", "C">>, <<"C", "B">>, <<"B", "D">>,
       <<"C", "D">> >>

\* the map in which edge TramosPosibles[i] has cost c[i], or is absent when
\* c[i] = -1
MapaCon(c) ==
    [n \in {"A", "B", "C", "D"} |->
        LET is == SelectSeq([i \in 1..Len(TramosPosibles) |-> i],
                            LAMBDA i : c[i] >= 0 /\ TramosPosibles[i][1] = n)
        IN  [k \in 1..Len(is) |-> <<TramosPosibles[is[k]][2], c[is[k]]>>]]

\* the maps with edge costs 0..MaxCosto, and the map of the script
Mapas ==
    {mapa_con_costos}
    \cup {MapaCon(c) : c \in [1..Len(TramosPosibles) -> -1..MaxCosto]}

\* mapa.get(n, {}).items()
Tramos(g, n) == IF n \in DOMAIN g THEN g[n] ELSE <<>>

NodeRank(n) == IndexOf(NodeNames, n)

\* the tuple heapq.heappop takes out of the heap F: the least (cost, name)
Menor(F) ==
    CHOOSE t \in F :
       \A u \in F : t[1] < u[1] \/ (t[1] = u[1] /\ NodeRank(t[2]) <= NodeRank(u[2]))

\* d.get(k), None when missing
GetOrNone(d, k) == IF k \in DOMAIN d THEN d[k] ELSE NoneVal

RECURSIVE Camino(_, _, _)
\* lines 8-20: the chain of predecessors from paso back, first node first;
\* fuel bounds the walk (a chain longer than the number of entries has a cycle)
Camino(pred, paso, fuel) ==
    IF paso = NoneVal THEN <<>>
    ELSE IF fuel = 0 THEN <<NoneVal>>
    ELSE Append(Camino(pred, GetOrNone(pred, paso), fuel - 1), paso)

_reconstruir_ruta(pred, punto_final) ==
    Camino(pred, punto_final, Cardinality(DOMAIN pred) + 1)

RECURSIVE Relajar_solo_nuevos(_, _, _, _)
\* lines 56-70 with the test of line 63 cut down to 'not in distancias'
Relajar_solo_nuevos(tramos, distancia_actual, ubicacion_actual, st) ==
    IF tramos = <<>> THEN st
    ELSE LET punto_siguiente == Head(tramos)[1]
             nueva == distancia_actual + Head(tramos)[2]
         IN  IF punto_siguiente \notin DOMAIN st.distancias
             THEN Relajar_solo_nuevos(Tail(tramos), distancia_actual, ubicacion_actual,
                     [distancias |-> Extend(st.distancias, punto_siguiente, nueva),
                      predecesores |-> Extend(st.predecesores, punto_siguiente,
                                              ubicacion_actual),
                      frontera |-> st.frontera \cup {<<nueva, punto_siguiente>>}])
             ELSE Relajar_solo_nuevos(Tail(tramos), distancia_actual, ubicacion_actual, st)

RECURSIVE Relajar(_, _, _, _)
\* lines 56-70: the loop over the neighbours of ubicacion_actual
Relajar(tramos, distancia_actual, ubicacion_actual, st) ==
    IF tramos = <<>> THEN st
    ELSE LET punto_siguiente == Head(tramos)[1]
             nueva == distancia_actual + Head(tramos)[2]
         IN  IF \/ punto_siguiente \notin DOMAIN st.distancias
                \/ nueva < st.distancias[punto_siguiente]
             THEN Relajar(Tail(tramos), distancia_actual, ubicacion_actual,
                     [distancias |-> Extend(st.distancias, punto_siguiente, nueva),
                      predecesores |-> Extend(st.predecesores, punto_siguiente,
                                              ubicacion_actual),
                      frontera |-> st.frontera \cup {<<nueva, punto_siguiente>>}])
             ELSE Relajar(Tail(tramos), distancia_actual, ubicacion_actual, st)

InitCostoUniforme ==
    /\ script = BusquedaCostoUniforme
    /\ factors = <<>>
    /\ CallsIdle
    /\ LateIdle
    /\ AlgIdle /\ IdsIdle /\ AstIdle
    /\ mapa \in Mapas
    /\ origen = "A"
    /\ destino \in {"A", "C", "D", "G"}
    /\ distancias = <<>>
    /\ frontera = {}
    /\ predecesores = <<>>
    /\ resultado_modificado = <<>>
    /\ pc = "inicio"

\* lines 30-38
IniciarRuta ==
    /\ pc = "inicio"
    /\ script = BusquedaCostoUniforme
    /\ frontera' = {<<0, origen>>}
    /\ predecesores' = Extend(<<>>, origen, NoneVal)
    /\ distancias' = Extend(<<>>, origen, 0)
    /\ pc' = "while"
    /\ UNCHANGED <<script, veVars, enumVars, lateVars, resultado, err, algVars, idsVars, astVars,
                   mapa, destino, origen, resultado_modificado>>

\* lines 41-70: one iteration of the while loop
ExtraerMenor ==
    /\ pc = "while"
    /\ script = BusquedaCostoUniforme
    /\ frontera # {}
    /\ LET t == Menor(frontera)
           distancia_actual == t[1]
           ubicacion_actual == t[2]
       IN  IF ubicacion_actual = destino
           THEN /\ resultado_modificado' =
                      [mensaje |-> "encontrada",
                       costo_total |-> distancia_actual,
                       ruta |-> _reconstruir_ruta(predecesores, destino)]
                /\ frontera' = frontera \ {t}
                /\ pc' = "done"
                /\ UNCHANGED <<predecesores, distancias>>
           ELSE LET st == Relajar(Tramos(mapa, ubicacion_actual), distancia_actual,
                                  ubicacion_actual,
                                  [distancias |-> distancias,
                                   predecesores |-> predecesores,
                                   frontera |-> frontera \ {t}])
                IN  /\ frontera' = st.frontera
                    /\ predecesores' = st.predecesores
                    /\ distancias' = st.distancias
                    /\ UNCHANGED <<pc, resultado_modificado>>
    /\ UNCHANGED <<script, veVars, enumVars, lateVars, resultado, err, algVars, idsVars, astVars,
                   mapa, destino, origen>>

\* line 73: the frontier is empty
SinRuta ==
    /\ pc = "while"
    /\ script = BusquedaCostoUniforme
    /\ frontera = {}
    /\ resultado_modificado' = [mensaje |-> "no encontrada"]
    /\ pc' = "done"
    /\ UNCHANGED <<script, veVars, enumVars, lateVars, resultado, err, algVars, idsVars, astVars,
                   ucsVars, origen, frontera, predecesores>>

NextCostoUniforme == IniciarRuta \/ ExtraerMenor \/ SinRuta

SpecCostoUniforme == InitCostoUniforme /\ [][NextCostoUniforme]_vars

-----------------------------------------------------------------------------
(* 003_1Astar.py : NavegadorAEstrella                                       *)

Astar == "003_1Astar.py"

\* lines 87-90: the same dict as mapa_con_costos of the uniform-cost script
mapa_costos == mapa_con_costos

\* lines 93-95
heuristica_hacia_g ==
    [A |-> 8, B |-> 5, C |-> 5, D |-> 1, E |-> 2, F |-> 4, G |-> 0]

\* the networks over A..D without the edge C -> B, costs 0..MaxCosto
Redes ==
    {MapaCon(c) : c \in {x \in [1..Len(TramosPosibles) -> -1..MaxCosto] : x[4] = -1}}

\* the heuristic tables for a search towards D: A may be missing, B and C
\* may be missing or carry any estimate up to MaxHeuristica, D carries 0
Heuristicas ==
    { [n \in {m \in {"A", "B", "C", "D"} : h[m] >= 0} |-> h[n]] :
        h \in { x \in [{"A", "B", "C", "D"} -> -1..MaxHeuristica] :
                  x["A"] <= 0 /\ x["D"] = 0 } }

RECURSIVE ExplorarConexiones_voraz(_, _, _, _)
\* lines 62-80 with line 77 ranking a neighbour by its estimate alone
ExplorarConexiones_voraz(tramos, posicion_actual, h, st) ==
    IF tramos = <<>> THEN st
    ELSE LET vecino == Head(tramos)[1]
             nuevo_costo_g == st.costo_g[posicion_actual] + Head(tramos)[2]
         IN  IF vecino \notin DOMAIN st.costo_g \/ nuevo_costo_g < st.costo_g[vecino]
             THEN LET estimacion_h == Get(h, vecino)
                      costo_f == estimacion_h
                  IN  ExplorarConexiones_voraz(Tail(tramos), posicion_actual, h,
                         [predecesores |-> Extend(st.predecesores, vecino, posicion_actual),
                          costo_g |-> Extend(st.costo_g, vecino, nuevo_costo_g),
                          frontera |-> st.frontera \cup {<<costo_f, vecino>>}])
             ELSE ExplorarConexiones_voraz(Tail(tramos), posicion_actual, h, st)

RECURSIVE ExplorarConexiones(_, _, _, _)
\* lines 62-80: the loop over the neighbours of posicion_actual
ExplorarConexiones(tramos, posicion_actual, h, st) ==
    IF tramos = <<>> THEN st
    ELSE LET vecino == Head(tramos)[1]
             nuevo_costo_g == st.costo_g[posicion_actual] + Head(tramos)[2]
         IN  IF vecino \notin DOMAIN st.costo_g \/ nuevo_costo_g < st.costo_g[vecino]
             THEN LET estimacion_h == Get(h, vecino)
                      costo_f == nuevo_costo_g + estimacion_h
                  IN  ExplorarConexiones(Tail(tramos), posicion_actual, h,
                         [predecesores |-> Extend(st.predecesores, vecino, posicion_actual),
                          costo_g |-> Extend(st.costo_g, vecino, nuevo_costo_g),
                          frontera |-> st.frontera \cup {<<costo_f, vecino>>}])
             ELSE ExplorarConexiones(Tail(tramos), posicion_actual, h, st)

\* navegador = NavegadorAEstrella(red, heuristica), then
\* navegador.encontrar_ruta_optima(inicio, meta) is entered
InitAstar ==
    /\ script = Astar
    /\ factors = <<>>
    /\ CallsIdle
    /\ LateIdle
    /\ AlgIdle /\ IdsIdle /\ UcsIdle
    /\ \/ /\ red_navegador = mapa_costos
          /\ heuristica = heuristica_hacia_g
          /\ meta = "G"
       \/ /\ red_navegador \in Redes
          /\ heuristica \in Heuristicas
          /\ meta = "D"
    /\ inicio = "A"
    /\ costo_g = <<>>
    /\ origen = ""
    /\ frontera = {}
    /\ predecesores = <<>>
    /\ resultado_modificado = <<>>
    /\ pc = "inicio"

\* lines 37-44; self.heuristica[inicio] raises KeyError for a missing entry
IniciarBusqueda ==
    /\ pc = "inicio"
    /\ script = Astar
    /\ IF inicio \notin DOMAIN heuristica
       THEN /\ pc' = "error"
            /\ err' = "KeyError: heuristica[inicio]"
            /\ UNCHANGED <<frontera, predecesores, costo_g>>
       ELSE /\ frontera' = {<<heuristica[inicio], inicio>>}
            /\ predecesores' = Extend(<<>>, inicio, NoneVal)
            /\ costo_g' = Extend(<<>>, inicio, 0)
            /\ pc' = "while"
            /\ UNCHANGED err
    /\ UNCHANGED <<script, veVars, enumVars, lateVars, resultado, algVars, idsVars, ucsVars,
                   red_navegador, heuristica, inicio, meta, origen,
                   resultado_modificado>>

\* lines 46-80: one iteration of the while loop
ExtraerPrometedor ==
    /\ pc = "while"
    /\ script = Astar
    /\ frontera # {}
    /\ LET t == Menor(frontera)
           posicion_actual == t[2]
       IN  IF posicion_actual = meta
           THEN /\ resultado_modificado' =
                      [mensaje |-> "encontrada",
                       ruta |-> _reconstruir_ruta(predecesores, meta),
                       costo |-> costo_g[meta]]
                /\ frontera' = frontera \ {t}
                /\ pc' = "done"
                /\ UNCHANGED <<predecesores, costo_g>>
           ELSE LET st == ExplorarConexiones(Tramos(red_navegador, posicion_actual),
                                             posicion_actual, heuristica,
                                             [predecesores |-> predecesores,
                                              costo_g |-> costo_g,
                                              frontera |-> frontera \ {t}])
                IN  /\ frontera' = st.frontera
                    /\ predecesores' = st.predecesores
                    /\ costo_g' = st.costo_g
                    /\ UNCHANGED <<pc, resultado_modificado>>
    /\ UNCHANGED <<script, veVars, enumVars, lateVars, resultado, err, algVars, idsVars, ucsVars,
                   red_navegador, heuristica, inicio, meta, origen>>

\* line 82: the frontier is empty
BusquedaFallida ==
    /\ pc = "while"
    /\ script = Astar
    /\ frontera = {}
    /\ resultado_modificado' = [mensaje |-> "fallida"]
    /\ pc' = "done"
    /\ UNCHANGED <<script, veVars, enumVars, lateVars, resultado, err, algVars, idsVars, ucsVars,
                   astVars, origen, frontera, predecesores>>

NextAstar == IniciarBusqueda \/ ExtraerPrometedor \/ BusquedaFallida

SpecAstar == InitAstar /\ [][NextAstar]_vars

-----------------------------------------------------------------------------
(* infer as one function of its arguments: the set of ways a call can end. *)
(* query_var is no argument of it: lines 68-107 never read query_var.      *)

RECURSIVE EliminateAll(_, _)
\* lines 87-98, the whole loop
EliminateAll(wf, order) ==
    IF order = <<>> THEN [raised |-> FALSE, wf |-> wf]
    ELSE IF \A i \in 1..Len(wf) : ~ HasVar(wf[i], Head(order))
    THEN [raised |-> TRUE, wf |-> wf]
    ELSE EliminateAll(EliminateStep(wf, Head(order)), Tail(order))

\* lines 68-107
InferOutcomes(fs, ev, order) ==
    LET e == EliminateAll(ApplyEvidenceTo(fs, ev), order)
    IN  IF e.raised THEN {Raised("IndexError: factors_with_var[0]")}
        ELSE IF e.wf = <<>> THEN {Raised("IndexError: working_factors[0]")}
        ELSE NormalizeOutcomes(MultiplyAll(Head(e.wf), Tail(e.wf)))

-----------------------------------------------------------------------------
(* Reference semantics: the joint distribution the factors of a model      *)
(* define, computed assignment by assignment.                              *)

RECURSIVE GCD(_, _)
GCD(a, b) == IF b = 0 THEN a ELSE GCD(b, a % b)

\* the rational n/d in lowest terms (d > 0)
Lowest(r) == LET g == GCD(r[1], r[2]) IN <<r[1] \div g, r[2] \div g>>

RatEq(r1, r2) == Lowest(r1) = Lowest(r2)

\* all joint assignments of a model, as tuples in the order Sorted(ModelVars)
FullAssignments(fs) ==
    LET vs == Sorted(ModelVars(fs))
    IN  Product([i \in 1..Len(vs) |-> VarDomain(fs, vs[i])])

ValueOf(fs, t, v) == t[IndexOf(Sorted(ModelVars(fs)), v)]

RECURSIVE JointWeight(_, _, _)
\* the product of the entries of the factors fs[i..] at the assignment t
JointWeight(fs, t, i) ==
    IF i > Len(fs) THEN 1
    ELSE Get(fs[i].cpt,
             [j \in 1..Len(fs[i].variables) |-> ValueOf(fs, t, fs[i].variables[j])])
           * JointWeight(fs, t, i + 1)

Agrees(fs, t, ev) ==
    \A v \in DOMAIN ev \cap ModelVars(fs) : ValueOf(fs, t, v) = ev[v]

Mass(fs, T) == SumValues([t \in T |-> JointWeight(fs, t, 1)])

\* the unnormalised probability of the evidence
PEvidence(fs, ev) == Mass(fs, {t \in FullAssignments(fs) : Agrees(fs, t, ev)})

\* the unnormalised probability of q = val together with the evidence
PJoint(fs, q, val, ev) ==
    Mass(fs, {t \in FullAssignments(fs) : Agrees(fs, t, ev) /\ ValueOf(fs, t, q) = val})

\* P(q = val | ev)
Posterior(fs, q, val, ev) == <<PJoint(fs, q, val, ev), PEvidence(fs, ev)>>

Hidden(fs, q, ev) == ModelVars(fs) \ ({q} \cup DOMAIN ev)

IsPermutationOf(order, S) ==
    /\ Len(order) = Cardinality(S)
    /\ ToSet(order) = S

AllOrdersOf(S) ==
    {o \in [1..Cardinality(S) -> S] : ToSet(o) = S}

\* an infer call with a query variable of the model, evidence that does not
\* fix it, and every hidden variable listed exactly once
ValidCall ==
    /\ script = ElimVariables
    /\ pc \notin {"idle"}
    /\ query_var \in ModelVars(factors)
    /\ query_var \notin DOMAIN evidence
    /\ IsPermutationOf(elimination_order, Hidden(factors, query_var, evidence))

\* the values of the returned mapping add up to 1
SumsToOne(r) ==
    /\ DOMAIN r # {}
    /\ \A k \in DOMAIN r : r[k][2] = SumValues([j \in DOMAIN r |-> r[j][1]])

-----------------------------------------------------------------------------
(* Claims *)

\* C1: for every model, query variable Q, evidence E (of non-zero
\* probability) and valid elimination order, the mapping infer returns has
\* exactly the values of Q's domain as its keys, each mapped to the posterior
\* probability of that value given E.
C1_PosteriorOfQuery ==
    (ValidCall /\ pc = "done" /\ PEvidence(factors, evidence) > 0)
    => /\ DOMAIN resultado = VarDomain(factors, query_var)
       /\ \A val \in DOMAIN resultado :
             RatEq(resultado[val], Posterior(factors, query_var, val, evidence))

\* C2: for evidence of non-zero probability and a valid elimination order,
\* the values of the mapping infer returns sum to 1.
C2_SumsToOne ==
    (ValidCall /\ pc = "done" /\ PEvidence(factors, evidence) > 0)
    => SumsToOne(resultado)

\* C3: after the elimination loop over a valid order, the final factor has
\* the scope (Q), for empty and for non-empty evidence alike.
C3_FinalScopeIsQuery ==
    (ValidCall /\ pc = "normalize") => final_factor.variables = <<query_var>>

\* C4: for a fixed model, query variable and evidence, infer returns the same
\* mapping for every valid elimination order.
C4_OrderIndependent ==
    (ValidCall /\ pc = "done")
    => \A o \in AllOrdersOf(Hidden(factors, query_var, evidence)) \ {elimination_order} :
          InferOutcomes(factors, evidence, o) = {Returned(resultado)}

\* the variable the elimination loop is at is in the scope of no working factor
AtAbsentVariable ==
    /\ script = ElimVariables
    /\ factors # <<>>
    /\ idx \in 1..Len(elimination_order)
    /\ \A i \in 1..Len(working_factors) :
          ~ HasVar(working_factors[i], elimination_order[idx])

\* C5: when the elimination order contains a variable that is in the scope
\* of no working factor, infer skips it without raising an error, and
\* returns what it returns for the order without that variable.
C5_AbsentVariableSkipped ==
    /\ AtAbsentVariable => pc # "error"
    /\ (script = ElimVariables /\ pc = "done")
       => Returned(resultado) \in
            InferOutcomes(factors, evidence,
                          SelectSeq(elimination_order,
                                    LAMBDA v : v \in ModelVars(factors)))

\* elimination_order is not the hidden variables, each listed once
MalformedOrder ==
    /\ script = ElimVariables
    /\ pc # "idle"
    /\ ~ IsPermutationOf(elimination_order, Hidden(factors, query_var, evidence))

\* C6: given a malformed elimination order, infer reports an error before
\* any factor is reduced, multiplied or summed out, and returns no
\* distribution.
C6_MalformedOrderRejected ==
    MalformedOrder
    => /\ pc # "done"
       /\ working_factors = <<>>
       /\ final_factor = NoFactor
       /\ resultado = <<>>

\* C7: whenever the evidence has probability zero under the model, infer
\* ends with a reported error and never returns a mapping.
C7_ZeroEvidenceRaises ==
    (ValidCall /\ PEvidence(factors, evidence) = 0) => pc # "done"

\* C8: with empty evidence and a valid elimination order, the distribution
\* infer returns for Q is the marginal of Q in the full joint table of the
\* input factors (for a model of non-zero total weight).
C8_NoEvidenceMarginal ==
    (/\ ValidCall
     /\ DOMAIN evidence = {}
     /\ pc \in {"done", "error"}
     /\ PEvidence(factors, evidence) > 0)
    => /\ pc = "done"
       /\ DOMAIN resultado = VarDomain(factors, query_var)
       /\ \A val \in DOMAIN resultado :
             RatEq(resultado[val],
                   << Mass(factors, {t \in FullAssignments(factors) :
                                       ValueOf(factors, t, query_var) = val}),
                      Mass(factors, FullAssignments(factors)) >>)

\* a returned marginal over two eliminated variables, neither 0 nor 1
C8_Witness ==
    /\ ValidCall
    /\ DOMAIN evidence = {}
    /\ pc = "done"
    /\ Len(elimination_order) >= 2
    /\ \E val \in DOMAIN resultado :
          resultado[val][1] > 0 /\ resultado[val][1] < resultado[val][2]

\* the rational r, rounded to four decimals, is n / 10000
RoundsTo(r, n) ==
    LET l == Lowest(r)
    IN  /\ (2 * n - 1) * l[2] <= 20000 * l[1]
        /\ 20000 * l[1] < (2 * n + 1) * l[2]

\* infer(A, {C: true}, [B]) on the chain has returned
ChainQueryDone ==
    /\ script = ElimVariables
    /\ pc = "done"
    /\ factors = ChainFactors
    /\ query_var = "A"
    /\ DOMAIN evidence = {"C"}
    /\ evidence["C"] = "true"
    /\ elimination_order = <<"B">>

\* consultar(Robo, {JuanLlama: Si}) has returned
AlarmaQueryDone ==
    /\ script = InterEnumeracion
    /\ pc = "done"
    /\ var_consulta = "Robo"
    /\ DOMAIN evidencia = {"JuanLlama"}
    /\ evidencia["JuanLlama"] = "Si"

\* C9 as stated: on the chain A -> B -> C with the given tables, variable
\* elimination with order [B] and enumeration on Robo -> Alarma -> JuanLlama
\* return P(A=true | C=true) = 0.0174 to four decimals.
C9_ChainPosterior0174 ==
    /\ ChainQueryDone
       => ("true" \in DOMAIN resultado /\ RoundsTo(resultado["true"], 174))
    /\ AlarmaQueryDone
       => ("Si" \in DOMAIN resultado /\ RoundsTo(resultado["Si"], 174))

\* C9 amended: both engines return P(A=true | C=true) = 1715/118598,
\* which is 0.0145 to four decimals.
C9_ChainPosterior0145 ==
    /\ ChainQueryDone
       => /\ "true" \in DOMAIN resultado
          /\ RoundsTo(resultado["true"], 145)
          /\ RatEq(resultado["true"], <<1715, 118598>>)
    /\ AlarmaQueryDone
       => /\ "Si" \in DOMAIN resultado
          /\ RoundsTo(resultado["Si"], 145)
          /\ RatEq(resultado["Si"], <<1715, 118598>>)

\* the chain query has returned, with the value enumeration gives for
\* P(Robo=Si | JuanLlama=Si)
C9_Witness ==
    /\ ChainQueryDone
    /\ DOMAIN resultado = {"true", "false"}
    /\ RatEq(resultado["true"],
             Consultar(ESTRUCTURA_ALARMA, "Robo", [JuanLlama |-> "Si"])["Si"])

\* C10: evidence reduction builds, for each input factor, a factor over the
\* same scope whose table has exactly the input entries that agree with E on
\* every evidence variable of the scope (the others are absent, not stored
\* with weight 0); a factor without evidence variables keeps its whole table.
C10_EvidenceReduction ==
    (script = ElimVariables /\ pc = "eliminate" /\ idx = 1)
    => /\ Len(working_factors) = Len(factors)
       /\ \A i \in 1..Len(factors) :
             LET f == factors[i]
                 r == working_factors[i]
                 agreeing == {k \in DOMAIN f.cpt :
                                \A j \in 1..Len(f.variables) :
                                   f.variables[j] \in DOMAIN evidence
                                   => k[j] = evidence[f.variables[j]]}
             IN  /\ r.variables = f.variables
                 /\ DOMAIN r.cpt = agreeing
                 /\ \A k \in agreeing : r.cpt[k] = f.cpt[k]
                 /\ (ToSet(f.variables) \cap DOMAIN evidence = {}) => r = f

\* the reduction has dropped some entries of one factor, kept others, and
\* passed another factor through
C10_Witness ==
    /\ script = ElimVariables
    /\ pc = "eliminate"
    /\ idx = 1
    /\ \E i \in 1..Len(factors) :
          /\ DOMAIN working_factors[i].cpt # {}
          /\ DOMAIN working_factors[i].cpt # DOMAIN factors[i].cpt
    /\ \E i \in 1..Len(factors) :
          /\ ToSet(factors[i].variables) \cap DOMAIN evidence = {}
          /\ working_factors[i] = factors[i]

\* C11: evidence reduction is idempotent: reducing with E a factor that was
\* already reduced with the same E gives a factor with the same scope and
\* the same table.
C11_ReductionIdempotent ==
    (script = ElimVariables /\ pc = "eliminate" /\ idx = 1)
    => \A i \in 1..Len(working_factors) :
          LET once == working_factors[i]
              twice == ReduceFactor(once, evidence)
          IN  /\ twice.variables = once.variables
              /\ twice.cpt = once.cpt

\* two evidence variables have been applied: some factor has lost entries
\* and kept others with non-zero weight
C11_Witness ==
    /\ script = ElimVariables
    /\ pc = "eliminate"
    /\ idx = 1
    /\ Cardinality(DOMAIN evidence) = 2
    /\ \E i \in 1..Len(factors) :
          /\ DOMAIN working_factors[i].cpt # DOMAIN factors[i].cpt
          /\ \E a \in DOMAIN working_factors[i].cpt : working_factors[i].cpt[a] > 0

\* C14: after each elimination step for a variable v, the working list is
\* the factors that did not contain v, unchanged and in their order, plus one
\* new factor, and from that step on v is in the scope of no working factor
\* (nor of the final factor).
C14_EliminationStep ==
    [][ /\ (script = ElimVariables /\ pc = "eliminate" /\ idx' = idx + 1)
           => LET v == elimination_order[idx]
                  kept == SelectSeq(working_factors,
                                    LAMBDA f : \A i \in 1..Len(f.variables) :
                                                  f.variables[i] # v)
              IN  /\ Len(working_factors') = Len(kept) + 1
                  /\ SubSeq(working_factors', 1, Len(kept)) = kept
                  /\ \A j \in 1..idx, i \in 1..Len(working_factors') :
                        elimination_order[j] \notin ToSet(working_factors'[i].variables)
        /\ (script = ElimVariables /\ pc = "eliminate" /\ pc' = "normalize")
           => \A j \in 1..Len(elimination_order) :
                 elimination_order[j] \notin ToSet(final_factor'.variables)
      ]_vars

\* the first step on the four factors of the script has taken two of them
\* out and put one in
C14_Witness ==
    /\ script = ElimVariables
    /\ pc = "eliminate"
    /\ idx = 2
    /\ Len(factors) = 4
    /\ Len(working_factors) = 3
    /\ Len(elimination_order) >= 2

\* C15: no operation of the engine mutates an existing factor: through any
\* sequence of infer calls (with the multiply_factors and sum_out calls they
\* make) every input factor held by the solver keeps its scope and its
\* table, and the evidence mapping passed to a call is the same at every
\* step of the call.
C15_NoMutation ==
    [][ script = ElimVariables
        => /\ factors' = factors
           /\ (pc # "idle" /\ pc' # "idle") => evidence' = evidence ]_vars

\* a call with evidence on the script's factors has reduced, multiplied,
\* summed out and returned, and the solver still holds the script's factors
C15_Witness ==
    /\ script = ElimVariables
    /\ pc = "done"
    /\ factors = DemoFactors
    /\ DOMAIN evidence # {}
    /\ Len(elimination_order) >= 2
    /\ \E i \in 1..Len(factors) :
          DOMAIN ReduceFactor(factors[i], evidence).cpt # DOMAIN factors[i].cpt

\* C16: for fixed input factors, query variable, evidence and elimination
\* order, infer ends, and ends the same way on every run: the outcome that
\* is observed is the only one the call can have, whatever the order in
\* which the value sets and the table keys are enumerated.
C16_Deterministic ==
    (script = ElimVariables /\ pc \in {"done", "error"})
    => InferOutcomes(factors, evidence, elimination_order)
         = {[pc |-> pc, err |-> err, resultado |-> resultado]}

\* every key of the table of f has as many components as the scope of f
ArityMatches(f) == \A k \in DOMAIN f.cpt : Len(k) = Len(f.variables)

\* C17: given input factors whose table keys all have the arity of their
\* scope, every factor created during infer (reduced, product, summed-out
\* and final) has every table key of the arity of its scope.
C17_KeyArity ==
    (script = ElimVariables /\ \A i \in 1..Len(factors) : ArityMatches(factors[i]))
    => /\ \A i \in 1..Len(working_factors) : ArityMatches(working_factors[i])
       /\ ArityMatches(final_factor)

\* a final factor over two variables built after evidence reduction and two
\* eliminations that multiplied and summed out
C17_Witness ==
    /\ script = ElimVariables
    /\ pc = "normalize"
    /\ DOMAIN evidence # {}
    /\ Len(elimination_order) = 2
    /\ Len(final_factor.variables) = 2
    /\ DOMAIN final_factor.cpt # {}

\* the nodes of a map: its keys and every neighbour named in it
NodosDe(g) ==
    DOMAIN g \cup {t[1] : t \in UNION {ToSet(g[n]) : n \in DOMAIN g}}

\* the least element of a non-empty set of numbers
Minimo(S) == CHOOSE x \in S : \A y \in S : x <= y

RECURSIVE CostosHasta(_, _, _)
\* for every node, the least cost of a path of at most k edges from a to it,
\* -1 when there is none
CostosHasta(g, a, k) ==
    IF k = 0 THEN [n \in NodosDe(g) \cup {a} |-> IF n = a THEN 0 ELSE -1]
    ELSE LET d == CostosHasta(g, a, k - 1)
             via(v) == UNION { {d[u] + t[2] : t \in {x \in ToSet(g[u]) : x[1] = v}} :
                               u \in {n \in DOMAIN g : d[n] >= 0} }
             all(v) == via(v) \cup (IF d[v] >= 0 THEN {d[v]} ELSE {})
         IN  [v \in DOMAIN d |-> IF all(v) = {} THEN -1 ELSE Minimo(all(v))]

\* the minimum total cost over all paths from a to b, -1 when b is out of reach
CostoMinimo(g, a, b) ==
    LET d == CostosHasta(g, a, Cardinality(NodosDe(g) \cup {a}))
    IN  IF b \in DOMAIN d THEN d[b] ELSE -1

\* ruta is a path of the map g from a to b
EsRutaDe(g, ruta, a, b) ==
    /\ Len(ruta) >= 1
    /\ ruta[1] = a
    /\ ruta[Len(ruta)] = b
    /\ \A i \in 1..(Len(ruta) - 1) :
          \E t \in ToSet(Tramos(g, ruta[i])) : t[1] = ruta[i + 1]

RECURSIVE CostoDeRuta(_, _)
\* the sum of the edge costs along ruta
CostoDeRuta(g, ruta) ==
    IF Len(ruta) <= 1 THEN 0
    ELSE (CHOOSE t \in ToSet(Tramos(g, ruta[1])) : t[1] = ruta[2])[2]
           + CostoDeRuta(g, Tail(ruta))

\* C19: for a map with non-negative edge costs in which destino can be
\* reached from origen, encontrar_ruta_de_costo_minimo returns as
\* costo_total the minimum total cost over all paths from origen to destino,
\* and the route it returns is a path of the map whose edge costs add up to
\* that value.
C19_CostoMinimo ==
    (/\ script = BusquedaCostoUniforme
     /\ pc = "done"
     /\ CostoMinimo(mapa, origen, destino) >= 0)
    => /\ resultado_modificado.mensaje = "encontrada"
       /\ resultado_modificado.costo_total = CostoMinimo(mapa, origen, destino)
       /\ EsRutaDe(mapa, resultado_modificado.ruta, origen, destino)
       /\ CostoDeRuta(mapa, resultado_modificado.ruta)
            = resultado_modificado.costo_total

\* a route over two edges has been returned that beats the direct edge from
\* origen to destino: the cost of destino was lowered after it was first set
C19_Witness ==
    /\ script = BusquedaCostoUniforme
    /\ pc = "done"
    /\ resultado_modificado.mensaje = "encontrada"
    /\ Len(resultado_modificado.ruta) = 3
    /\ \E t \in ToSet(Tramos(mapa, origen)) :
          t[1] = destino /\ t[2] > resultado_modificado.costo_total

\* encontrar_ruta_optima has returned a route
RutaDevuelta ==
    /\ script = Astar
    /\ pc = "done"
    /\ resultado_modificado.mensaje = "encontrada"

Admisible(g, h, m) ==
    \A n \in NodosDe(g) :
       CostoMinimo(g, n, m) >= 0 => Get(h, n) <= CostoMinimo(g, n, m)

-----------------------------------------------------------------------------
(* 006_BusBidireccional.py: BuscadorBidireccional *)

BusBidireccional == "006_BusBidireccional.py"

\* the node names in the order the graph dicts are written in
Puntos == <<"A", "B", "C", "D", "E", "F", "G", "H", "I", "J", "K", "L", "M">>

\* the keys of a graph dict in insertion order
Claves(g) == SelectSeq(Puntos, LAMBDA n : n \in DOMAIN g)

\* lines 123-127
mapa_ejemplo ==
    Dict({ <<"A", <<"B", "G">> >>, <<"B", <<"C", "H">> >>, <<"C", <<"D">> >>,
           <<"D", <<"E">> >>, <<"E", <<"F">> >>, <<"F", <<"I">> >>,
           <<"G", <<"J">> >>, <<"H", <<"K", "L">> >>, <<"I", <<>> >>,
           <<"J", <<>> >>, <<"K", <<"M">> >>, <<"L", <<"M">> >>, <<"M", <<>> >> })

\* the edges a graph handed to BuscadorBidireccional can have, in the order
\* of the adjacency lists
ConexionesPosibles ==
    << <<"A", "B">>, <<"A", "D">>, <<"B", "C">>, <<"B", "D">>, <<"C", "D">>,
       <<"C", "E">>, <<"D", "E">>, <<"E", "A">> >>

\* the dict node -> list of successors over A..E with the edges S
RedCon(S) ==
    [n \in {"A", "B", "C", "D", "E"} |->
        LET salientes == SelectSeq(ConexionesPosibles, LAMBDA e : e \in S /\ e[1] = n)
        IN  [i \in 1..Len(salientes) |-> salientes[i][2]]]

RedesDirectas == {RedCon(S) : S \in SUBSET ToSet(ConexionesPosibles)}

\* lines 39-50: every edge turned round; the list of a node holds its
\* predecessors in the order the dict of the original graph lists them
_invertir_red(red_original) ==
    LET todos == DOMAIN red_original
                 \cup UNION {ToSet(red_original[n]) : n \in DOMAIN red_original}
    IN  [c \in todos |->
            SelectSeq(Claves(red_original), LAMBDA n : c \in ToSet(red_original[n]))]

\* lines 31-37
_crear_frente(nodo_inicial) ==
    [cola |-> <<nodo_inicial>>,
     visitados |-> {nodo_inicial},
     padres |-> [n \in {nodo_inicial} |-> NoneVal]]

RECURSIVE Encolar(_, _, _)
\* lines 91-95: the loop over the neighbours of nodo_a_explorar
Encolar(frente_actual, nodo_a_explorar, vecinos) ==
    IF vecinos = <<>> THEN frente_actual
    ELSE LET vecino == Head(vecinos)
         IN  IF vecino \in frente_actual.visitados
             THEN Encolar(frente_actual, nodo_a_explorar, Tail(vecinos))
             ELSE Encolar([cola |-> Append(frente_actual.cola, vecino),
                           visitados |-> frente_actual.visitados \cup {vecino},
                           padres |-> Extend(frente_actual.padres, vecino,
                                             nodo_a_explorar)],
                          nodo_a_explorar, Tail(vecinos))

\* lines 76-97: the fronts after the step and the node it returns
_expandir_un_frente(fs, frente_actual_key, frente_opuesto_key, red_a_usar) ==
    LET frente_actual == fs[frente_actual_key]
        frente_opuesto == fs[frente_opuesto_key]
        nodo_a_explorar == Head(frente_actual.cola)
        sacado == [frente_actual EXCEPT !.cola = Tail(frente_actual.cola)]
    IN  IF nodo_a_explorar \in frente_opuesto.visitados
        THEN [frentes |-> [fs EXCEPT ![frente_actual_key] = sacado],
              punto_encuentro |-> nodo_a_explorar]
        ELSE [frentes |-> [fs EXCEPT ![frente_actual_key] =
                              Encolar(sacado, nodo_a_explorar,
                                      Sucesores(red_a_usar, nodo_a_explorar))],
              punto_encuentro |-> NoneVal]

\* lines 99-120: the chain of 'delantera' parents back to inicio, turned
\* round, then the chain of 'trasera' parents on to meta
_ensamblar_ruta_completa(fs, punto_encuentro) ==
    LET ruta_delantera == Reverse(_reconstruir_ruta(fs.delantera.padres, punto_encuentro))
        ruta_trasera == Reverse(_reconstruir_ruta(fs.trasera.padres,
                                    GetOrNone(fs.trasera.padres, punto_encuentro)))
    IN  [estado |-> "Ruta óptima encontrada",
         ruta |-> Reverse(ruta_delantera) \o ruta_trasera]

\* line 57
MismoPunto == [estado |-> "El punto de partida y la meta son el mismo"]

\* line 74
Fallida == [estado |-> "Búsqueda fallida"]

\* a BuscadorBidireccional has been constructed (lines 14-29)
InitBidireccional ==
    /\ script = BusBidireccional
    /\ factors = <<>>
    /\ CallsIdle
    /\ AlgIdle /\ IdsIdle /\ UcsIdle /\ NashIdle /\ CspIdle
    /\ \/ red_directa \in RedesDirectas /\ inicio = "A"
          /\ meta \in {"A", "B", "C", "D", "E"}
       \/ red_directa = mapa_ejemplo /\ inicio = "A" /\ meta = "M"
    /\ red_inversa = _invertir_red(red_directa)
    /\ frentes = [delantera |-> _crear_frente(inicio), trasera |-> _crear_frente(meta)]
    /\ red_navegador = <<>>
    /\ heuristica = <<>>
    /\ costo_g = <<>>
    /\ origen = ""
    /\ frontera = {}
    /\ predecesores = <<>>
    /\ resultado_modificado = <<>>
    /\ pc = "buscar"

\* lines 56-57
Buscar ==
    /\ pc = "buscar"
    /\ IF inicio = meta
       THEN resultado_modificado' = MismoPunto /\ pc' = "done"
       ELSE pc' = "delantera" /\ UNCHANGED resultado_modificado
    /\ UNCHANGED <<script, veVars, enumVars, resultado, err, algVars, idsVars, ucsVars,
                   astVars, origen, frontera, predecesores, bidiVars, nashVars,
                   cspVars>>

\* lines 60-66: the loop goes on and the front of inicio takes a step
AvanzarDelantera ==
    /\ pc = "delantera"
    /\ frentes.delantera.cola # <<>>
    /\ frentes.trasera.cola # <<>>
    /\ LET paso == _expandir_un_frente(frentes, "delantera", "trasera", red_directa)
       IN  /\ frentes' = paso.frentes
           /\ IF paso.punto_encuentro # NoneVal
              THEN /\ resultado_modificado' =
                          _ensamblar_ruta_completa(paso.frentes, paso.punto_encuentro)
                   /\ pc' = "done"
              ELSE pc' = "trasera" /\ UNCHANGED resultado_modificado
    /\ UNCHANGED <<script, veVars, enumVars, resultado, err, algVars, idsVars, ucsVars,
                   astVars, origen, frontera, predecesores, red_directa, red_inversa,
                   nashVars, cspVars>>

\* lines 68-72: the front of meta takes a step backwards
AvanzarTrasera ==
    /\ pc = "trasera"
    /\ LET paso == _expandir_un_frente(frentes, "trasera", "delantera", red_inversa)
       IN  /\ frentes' = paso.frentes
           /\ IF paso.punto_encuentro # NoneVal
              THEN /\ resultado_modificado' =
                          _ensamblar_ruta_completa(paso.frentes, paso.punto_encuentro)
                   /\ pc' = "done"
              ELSE pc' = "delantera" /\ UNCHANGED resultado_modificado
    /\ UNCHANGED <<script, veVars, enumVars, resultado, err, algVars, idsVars, ucsVars,
                   astVars, origen, frontera, predecesores, red_directa, red_inversa,
                   nashVars, cspVars>>

\* line 74: one of the queues is empty
BusquedaBidireccionalFallida ==
    /\ pc = "delantera"
    /\ frentes.delantera.cola = <<>> \/ frentes.trasera.cola = <<>>
    /\ resultado_modificado' = Fallida
    /\ pc' = "done"
    /\ UNCHANGED <<script, veVars, enumVars, resultado, err, algVars, idsVars, ucsVars,
                   astVars, origen, frontera, predecesores, bidiVars, nashVars,
                   cspVars>>

NextBidireccional ==
    Buscar \/ AvanzarDelantera \/ AvanzarTrasera \/ BusquedaBidireccionalFallida

SpecBidireccional == InitBidireccional /\ [][NextBidireccional]_vars

\* ruta is a path of g from a to b
EsCaminoDe(g, ruta, a, b) ==
    /\ Len(ruta) >= 1
    /\ ruta[1] = a
    /\ ruta[Len(ruta)] = b
    /\ \A i \in 1..(Len(ruta) - 1) : ruta[i + 1] \in ToSet(Sucesores(g, ruta[i]))

\* C21: whenever buscar returns a route, the route is a path from inicio to
\* meta in the directed graph and no path from inicio to meta has fewer edges.
C21_RutaOptima ==
    (script = BusBidireccional /\ pc = "done"
        /\ resultado_modificado.estado = "Ruta óptima encontrada")
    => /\ EsCaminoDe(red_directa, resultado_modificado.ruta, inicio, meta)
       /\ Len(resultado_modificado.ruta) - 1 = LongitudMinima(red_directa, inicio, meta)

\* whenever buscar returns a route, the route is a path from inicio to meta
RutaEsCamino ==
    (script = BusBidireccional /\ pc = "done"
        /\ resultado_modificado.estado = "Ruta óptima encontrada")
    => EsCaminoDe(red_directa, resultado_modificado.ruta, inicio, meta)

-----------------------------------------------------------------------------
(* 009_EquilibrioMecanismos.py: GameSolver *)

EquilibrioMecanismos == "009_EquilibrioMecanismos.py"

\* lines 83-84
PLAYERS == <<"P1", "P2">>

ACTION_LIST == <<"Confesar", "No Confesar">>

\* lines 89-93
PAYOFF_MATRIX ==
    << << <<-5, -5>>, <<0, -10>> >>,
       << <<-10, 0>>, <<-1, -1>> >> >>

\* the payoff matrices a GameSolver is constructed with: the script's, and
\* every 2 x 2 matrix of pairs of utilities 0..MaxPago
Pagos == [1..2 -> [1..2 -> [1..2 -> 0..MaxPago]]] \cup {PAYOFF_MATRIX}

\* line 24, with the positions counted from 1
action_map(j) == [a \in ToSet(j.actions) |-> IndexOf(j.actions, a)]

\* lines 38-43
Utility(j, player_id, action, opponent_action) ==
    LET action_idx == action_map(j)[action]
        opponent_action_idx == action_map(j)[opponent_action]
    IN  IF player_id = 0
        THEN j.payoffs[action_idx][opponent_action_idx][1]
        ELSE j.payoffs[opponent_action_idx][action_idx][2]

\* float('-inf') of line 31: a best utility is <<u>> or, below all, <<>>
MenosInfinito == <<>>

\* utility > best_utility of line 45
Supera(utility, best_utility) ==
    IF best_utility = MenosInfinito THEN TRUE ELSE utility > best_utility[1]

RECURSIVE BestOver(_, _, _, _, _, _)
\* lines 35-47: the loop over the actions not yet looked at
BestOver(j, player_id, opponent_action, pendientes, best_utility, best_action) ==
    IF pendientes = <<>> THEN best_action
    ELSE LET action == Head(pendientes)
             utility == Utility(j, player_id, action, opponent_action)
         IN  IF Supera(utility, best_utility)
             THEN BestOver(j, player_id, opponent_action, Tail(pendientes),
                           <<utility>>, action)
             ELSE BestOver(j, player_id, opponent_action, Tail(pendientes),
                           best_utility, best_action)

\* lines 26-49
_get_best_response(j, player_id, opponent_action) ==
    BestOver(j, player_id, opponent_action, j.actions, MenosInfinito, NoneVal)

\* line 59: itertools.product(actions, repeat=2), in its order
all_strategy_profiles(j) ==
    [k \in 1..(Len(j.actions) * Len(j.actions)) |->
        << j.actions[((k - 1) \div Len(j.actions)) + 1],
           j.actions[((k - 1) % Len(j.actions)) + 1] >>]

\* a GameSolver has been constructed (lines 15-24)
InitNash ==
    /\ script = EquilibrioMecanismos
    /\ factors = <<>>
    /\ CallsIdle
    /\ AlgIdle /\ IdsIdle /\ UcsIdle /\ AstIdle /\ SharedIdle
    /\ BidiIdle /\ CspIdle
    /\ juego \in {[players |-> PLAYERS, actions |-> ACTION_LIST, payoffs |-> m] : m \in Pagos}
    /\ perfil = 0
    /\ equilibria = <<>>
    /\ pc = "idle"

\* lines 56-59
FindNashEquilibrium ==
    /\ pc = "idle"
    /\ equilibria' = <<>>
    /\ perfil' = 1
    /\ pc' = "for"
    /\ UNCHANGED <<script, veVars, enumVars, resultado, err, algVars, searchVars,
                   bidiVars, cspVars, juego>>

\* lines 61-78: one iteration of the loop over the profiles
ExaminarPerfil ==
    /\ pc = "for"
    /\ perfil <= Len(all_strategy_profiles(juego))
    /\ LET profile == all_strategy_profiles(juego)[perfil]
           p1_action == profile[1]
           p2_action == profile[2]
           is_p1_stable == p1_action = _get_best_response(juego, 0, p2_action)
           is_p2_stable == p2_action = _get_best_response(juego, 1, p1_action)
       IN  equilibria' =
              IF is_p1_stable /\ is_p2_stable
              THEN Append(equilibria,
                          [profile |-> profile,
                           payoffs |-> juego.payoffs[action_map(juego)[p1_action]]
                                                    [action_map(juego)[p2_action]]])
              ELSE equilibria
    /\ perfil' = perfil + 1
    /\ UNCHANGED <<script, veVars, enumVars, resultado, err, algVars, searchVars,
                   bidiVars, cspVars, juego, pc>>

\* line 80
ReturnEquilibria ==
    /\ pc = "for"
    /\ perfil > Len(all_strategy_profiles(juego))
    /\ pc' = "done"
    /\ UNCHANGED <<script, veVars, enumVars, resultado, err, algVars, searchVars,
                   bidiVars, cspVars, nashVars>>

NextNash == FindNashEquilibrium \/ ExaminarPerfil \/ ReturnEquilibria

SpecNash == InitNash /\ [][NextNash]_vars

\* the payoff of player k (1 or 2) of game j at the profile (a1, a2)
Pago(j, k, a1, a2) == j.payoffs[action_map(j)[a1]][action_map(j)[a2]][k]

\* no player can obtain a strictly higher payoff by changing only their own
\* action
SinIncentivo(j, a1, a2) ==
    /\ \A b \in ToSet(j.actions) : Pago(j, 1, b, a2) <= Pago(j, 1, a1, a2)
    /\ \A b \in ToSet(j.actions) : Pago(j, 2, a1, b) <= Pago(j, 2, a1, a2)

PerfilesDevueltos == {equilibria[i].profile : i \in 1..Len(equilibria)}

\* C22: find_nash_equilibrium returns exactly the profiles in which neither
\* player can obtain a strictly higher payoff by changing only their own
\* action: every such profile, and no other.
C22_ExactlyNash ==
    (script = EquilibrioMecanismos /\ pc = "done")
    => PerfilesDevueltos =
          {p \in ToSet(all_strategy_profiles(juego)) : SinIncentivo(juego, p[1], p[2])}

\* every profile find_nash_equilibrium returns is one in which no player has
\* an incentive to deviate, with the payoffs of the matrix
DevueltosSonNash ==
    (script = EquilibrioMecanismos)
    => \A i \in 1..Len(equilibria) :
          /\ SinIncentivo(juego, equilibria[i].profile[1], equilibria[i].profile[2])
          /\ equilibria[i].payoffs =
                <<Pago(juego, 1, equilibria[i].profile[1], equilibria[i].profile[2]),
                  Pago(juego, 2, equilibria[i].profile[1], equilibria[i].profile[2])>>

-----------------------------------------------------------------------------
(* 007_AcondiCorte.py: CutsetSolver *)

AcondiCorte == "007_AcondiCorte.py"

\* lines 85-87
REGIONES == <<"Norte", "Este", "Sur", "Oeste">>

VECINOS ==
    << <<"Norte", "Este">>, <<"Este", "Sur">>, <<"Sur", "Oeste">>, <<"Oeste", "Norte">> >>

\* the constraints a CutsetSolver can be given: those of the script and one
\* across the ring
RestriccionesPosibles == VECINOS \o << <<"Norte", "Sur">> >>

\* the sublists of the list s
Sublistas(s) == {SelectSeq(s, LAMBDA x : x \in S) : S \in SUBSET ToSet(s)}

\* the arguments of CutsetSolver: the regions, 1 to MaxColores colours, any
\* of the constraints, any regions as the cutset
ProblemasDeCorte ==
    {[variables |-> REGIONES, dominio |-> [i \in 1..k |-> i],
      restricciones |-> r, corte |-> c] :
        k \in 1..MaxColores, r \in Sublistas(RestriccionesPosibles),
        c \in Sublistas(REGIONES)}

\* line 21
variables_arbol(p) == SelectSeq(p.variables, LAMBDA v : v \notin ToSet(p.corte))

\* lines 24-27: the neighbours of each variable, in the order of the
\* constraint list
vecinos(p) ==
    [v \in ToSet(p.variables) |->
        LET tocan == SelectSeq(p.restricciones, LAMBDA r : r[1] = v \/ r[2] = v)
        IN  [i \in 1..Len(tocan) |-> IF tocan[i][1] = v THEN tocan[i][2] ELSE tocan[i][1]]]

\* lines 29-34
CutsetEsConsistente(p, variable, valor, a) ==
    \A i \in 1..Len(vecinos(p)[variable]) :
        LET vecino == vecinos(p)[variable][i]
        IN  ~(vecino \in DOMAIN a /\ a[vecino] = valor)

\* what a search returns: None, or the assignment dict a
Ninguno == [es_none |-> TRUE]

Hallada(a) == [es_none |-> FALSE, valor |-> a]

\* the truth value Python gives such a result: None and {} are false
Truthy(r) == ~r.es_none /\ DOMAIN r.valor # {}

\* next(v for v in s if v not in a)
PrimeraSinAsignar(s, a) == s[CHOOSE i \in 1..Len(s) :
                               s[i] \notin DOMAIN a /\ \A j \in 1..(i - 1) : s[j] \in DOMAIN a]

RECURSIVE _resolver_arbol_restante(_, _)
RECURSIVE ProbarValores(_, _, _, _)
\* lines 48-57: the loop over the values not yet tried for variable_a_asignar
ProbarValores(p, a, variable_a_asignar, valores) ==
    IF valores = <<>> THEN Ninguno
    ELSE LET valor == Head(valores)
         IN  IF CutsetEsConsistente(p, variable_a_asignar, valor, a)
             THEN LET res == _resolver_arbol_restante(p, Extend(a, variable_a_asignar, valor))
                  IN  IF Truthy(res) THEN res
                      ELSE ProbarValores(p, a, variable_a_asignar, Tail(valores))
             ELSE ProbarValores(p, a, variable_a_asignar, Tail(valores))

\* lines 36-57
_resolver_arbol_restante(p, a) ==
    IF Cardinality(DOMAIN a) = Len(p.variables) THEN Hallada(a)
    ELSE ProbarValores(p, a, PrimeraSinAsignar(variables_arbol(p), a), p.dominio)

\* itertools.product(dominio, repeat=n), as the list of its tuples in order
RECURSIVE ProductoRepetido(_, _)
ProductoRepetido(dominio, n) ==
    IF n = 0 THEN << <<>> >>
    ELSE LET resto == ProductoRepetido(dominio, n - 1)
         IN  [k \in 1..(Len(dominio) * Len(resto)) |->
                <<dominio[((k - 1) \div Len(resto)) + 1]>>
                    \o resto[((k - 1) % Len(resto)) + 1]]

\* line 68: {var: val for var, val in zip(corte, valores_corte)}
asignacion_inicial(corte, valores_corte) ==
    [v \in ToSet(corte) |-> valores_corte[IndexOf(corte, v)]]

\* a CutsetSolver has been constructed (lines 15-27)
InitCorte ==
    /\ script = AcondiCorte
    /\ factors = <<>>
    /\ CallsIdle
    /\ AlgIdle /\ IdsIdle /\ UcsIdle /\ AstIdle /\ SharedIdle
    /\ BidiIdle /\ NashIdle
    /\ problema \in ProblemasDeCorte
    /\ posibles_valores_corte = <<>>
    /\ asignacion = <<>>
    /\ dominios_de_trabajo = <<>>
    /\ llamadas = <<>>
    /\ devuelto = <<>>
    /\ solucion = <<>>
    /\ pc = "idle"

\* line 65
ResolverCorte ==
    /\ pc = "idle"
    /\ posibles_valores_corte' = ProductoRepetido(problema.dominio, Len(problema.corte))
    /\ pc' = "for"
    /\ UNCHANGED <<script, veVars, enumVars, resultado, err, algVars, searchVars,
                   bidiVars, nashVars, problema, asignacion, dominios_de_trabajo,
                   llamadas, devuelto, solucion>>

\* lines 67-80: one iteration of the loop over the cutset assignments
ProbarCorte ==
    /\ pc = "for"
    /\ posibles_valores_corte # <<>>
    /\ LET valores_corte == Head(posibles_valores_corte)
           res == _resolver_arbol_restante(problema,
                       asignacion_inicial(problema.corte, valores_corte))
       IN  /\ asignacion' = IF res.es_none
                            THEN asignacion_inicial(problema.corte, valores_corte)
                            ELSE res.valor
           /\ IF Truthy(res)
              THEN solucion' = res /\ pc' = "done"
              ELSE UNCHANGED <<solucion, pc>>
    /\ posibles_valores_corte' = Tail(posibles_valores_corte)
    /\ UNCHANGED <<script, veVars, enumVars, resultado, err, algVars, searchVars,
                   bidiVars, nashVars, problema, dominios_de_trabajo, llamadas,
                   devuelto>>

\* line 82: no cutset assignment led to a solution
CorteSinSolucion ==
    /\ pc = "for"
    /\ posibles_valores_corte = <<>>
    /\ solucion' = Ninguno
    /\ pc' = "done"
    /\ UNCHANGED <<script, veVars, enumVars, resultado, err, algVars, searchVars,
                   bidiVars, nashVars, problema, posibles_valores_corte, asignacion,
                   dominios_de_trabajo, llamadas, devuelto>>

NextCorte == ResolverCorte \/ ProbarCorte \/ CorteSinSolucion

SpecCorte == InitCorte /\ [][NextCorte]_vars

\* a gives every variable of vs a value of the list dominio
EsCompleta(a, vs, dominio) ==
    /\ DOMAIN a = ToSet(vs)
    /\ \A v \in ToSet(vs) : a[v] \in ToSet(dominio)

\* no two variables joined by a constraint of rs have the same value in a
RespetaRestricciones(a, rs) ==
    \A i \in 1..Len(rs) : a[rs[i][1]] # a[rs[i][2]]

\* C23: a non-None result of CutsetSolver.resolver gives every variable a
\* value of the domain, and no two variables joined by a constraint have the
\* same value.
C23_ResultadoEsSolucion ==
    (script = AcondiCorte /\ pc = "done" /\ ~solucion.es_none)
    => /\ EsCompleta(solucion.valor, problema.variables, problema.dominio)
       /\ RespetaRestricciones(solucion.valor, problema.restricciones)

\* the same, for the problems whose cutset holds no two variables joined by
\* a constraint
CorteIndependiente ==
    (script = AcondiCorte /\ pc = "done" /\ ~solucion.es_none
        /\ \A i \in 1..Len(problema.restricciones) :
              ~(problema.restricciones[i][1] \in ToSet(problema.corte)
                /\ problema.restricciones[i][2] \in ToSet(problema.corte)))
    => /\ EsCompleta(solucion.valor, problema.variables, problema.dominio)
       /\ RespetaRestricciones(solucion.valor, problema.restricciones)

-----------------------------------------------------------------------------
(* 002_VueltaAtras.py: SolucionadorCSP *)

VueltaAtras == "002_VueltaAtras.py"

\* lines 77 and 83
VARIABLES_CSP == <<"A", "B", "C">>

RESTRICCIONES_CSP == << <<"A", "B">>, <<"A", "C">> >>

\* the values a domain can hold, the script's first
ValoresPosibles == <<"Rojo", "Verde", "Azul", "Gris">>

\* the pairs a constraint list can hold, the script's first
ParesPosibles == RESTRICCIONES_CSP \o << <<"B", "C">>, <<"C", "A">> >>

\* the arguments of SolucionadorCSP: the script's variables, for each a
\* sublist of the first MaxValores values, any of the pairs
ProblemasCSP ==
    {[variables |-> VARIABLES_CSP, dominios |-> d, restricciones |-> r] :
        d \in [ToSet(VARIABLES_CSP) ->
                  Sublistas([i \in 1..MaxValores |-> ValoresPosibles[i]])],
        r \in Sublistas(ParesPosibles)}

\* lines 21-33, looking at a constraint only when its first variable is the
\* one being assigned
_es_consistente_una_direccion(p, variable, valor, a) ==
    \A i \in 1..Len(p.restricciones) :
        LET v1 == p.restricciones[i][1]
            v2 == p.restricciones[i][2]
        IN  ~(v1 = variable /\ v2 \in DOMAIN a /\ valor = a[v2])

\* lines 21-33
_es_consistente(p, variable, valor, a) ==
    \A i \in 1..Len(p.restricciones) :
        LET v1 == p.restricciones[i][1]
            v2 == p.restricciones[i][2]
        IN  /\ ~(v1 = variable /\ v2 \in DOMAIN a /\ valor = a[v2])
            /\ ~(v2 = variable /\ v1 \in DOMAIN a /\ valor = a[v1])

\* del d[k]
Quitar(d, k) == [x \in DOMAIN d \ {k} |-> d[x]]

\* the frame of the call under way and the frames below it
Cima == llamadas[Len(llamadas)]

Resto == SubSeq(llamadas, 1, Len(llamadas) - 1)

\* a SolucionadorCSP has been constructed (lines 12-19)
InitVueltaAtras ==
    /\ script = VueltaAtras
    /\ factors = <<>>
    /\ CallsIdle
    /\ AlgIdle /\ IdsIdle /\ UcsIdle /\ AstIdle /\ SharedIdle
    /\ BidiIdle /\ NashIdle
    /\ problema \in ProblemasCSP
    /\ posibles_valores_corte = <<>>
    /\ asignacion = <<>>
    /\ dominios_de_trabajo = <<>>
    /\ llamadas = <<>>
    /\ devuelto = <<>>
    /\ solucion = <<>>
    /\ pc = "idle"

\* lines 69-74: resolver calls _backtrack({})
Resolver ==
    /\ pc = "idle"
    /\ asignacion' = <<>>
    /\ pc' = "call"
    /\ UNCHANGED <<script, veVars, enumVars, resultado, err, algVars, searchVars,
                   bidiVars, nashVars, problema, posibles_valores_corte,
                   dominios_de_trabajo, llamadas, devuelto, solucion>>

\* lines 39-44: _backtrack is entered
Backtrack ==
    /\ pc = "call"
    /\ IF Cardinality(DOMAIN asignacion) = Len(problema.variables)
       THEN /\ devuelto' = Hallada(asignacion)
            /\ pc' = "return"
            /\ UNCHANGED llamadas
       ELSE /\ LET variable_actual == PrimeraSinAsignar(problema.variables, asignacion)
               IN  llamadas' = Append(llamadas,
                                      [variable_actual |-> variable_actual,
                                       pendientes |-> problema.dominios[variable_actual]])
            /\ pc' = "for"
            /\ UNCHANGED devuelto
    /\ UNCHANGED <<script, veVars, enumVars, resultado, err, algVars, searchVars,
                   bidiVars, nashVars, problema, posibles_valores_corte, asignacion,
                   dominios_de_trabajo, solucion>>

\* lines 47-56: the next value of the loop; a consistent one is assigned
\* and _backtrack called
ProbarValor ==
    /\ pc = "for"
    /\ Cima.pendientes # <<>>
    /\ LET valor == Head(Cima.pendientes)
       IN  IF _es_consistente(problema, Cima.variable_actual, valor, asignacion)
           THEN /\ asignacion' = Extend(asignacion, Cima.variable_actual, valor)
                /\ pc' = "call"
           ELSE UNCHANGED <<asignacion, pc>>
    /\ llamadas' = Append(Resto, [Cima EXCEPT !.pendientes = Tail(Cima.pendientes)])
    /\ UNCHANGED <<script, veVars, enumVars, resultado, err, algVars, searchVars,
                   bidiVars, nashVars, problema, posibles_valores_corte,
                   dominios_de_trabajo, devuelto, solucion>>

\* line 67: every value has been tried
ValoresAgotados ==
    /\ pc = "for"
    /\ Cima.pendientes = <<>>
    /\ llamadas' = Resto
    /\ devuelto' = Ninguno
    /\ pc' = "return"
    /\ UNCHANGED <<script, veVars, enumVars, resultado, err, algVars, searchVars,
                   bidiVars, nashVars, problema, posibles_valores_corte, asignacion,
                   dominios_de_trabajo, solucion>>

\* lines 56-64: the recursive call has returned to the loop that made it
Retomar ==
    /\ pc = "return"
    /\ llamadas # <<>>
    /\ IF Truthy(devuelto)
       THEN /\ llamadas' = Resto
            /\ UNCHANGED <<asignacion, pc>>
       ELSE /\ asignacion' = Quitar(asignacion, Cima.variable_actual)
            /\ pc' = "for"
            /\ UNCHANGED llamadas
    /\ UNCHANGED <<script, veVars, enumVars, resultado, err, algVars, searchVars,
                   bidiVars, nashVars, problema, posibles_valores_corte,
                   dominios_de_trabajo, devuelto, solucion>>

\* line 74: the outermost _backtrack has returned to resolver
Terminar ==
    /\ pc = "return"
    /\ llamadas = <<>>
    /\ solucion' = devuelto
    /\ pc' = "done"
    /\ UNCHANGED <<script, veVars, enumVars, resultado, err, algVars, searchVars,
                   bidiVars, nashVars, problema, posibles_valores_corte, asignacion,
                   dominios_de_trabajo, llamadas, devuelto>>

NextVueltaAtras ==
    Resolver \/ Backtrack \/ ProbarValor \/ ValoresAgotados \/ Retomar \/ Terminar

SpecVueltaAtras == InitVueltaAtras /\ [][NextVueltaAtras]_vars

\* a gives every variable of p one value of its domain
EsCompletaCSP(a, p) ==
    /\ DOMAIN a = ToSet(p.variables)
    /\ \A v \in ToSet(p.variables) : a[v] \in ToSet(p.dominios[v])

\* the complete assignments of p that violate no not-equal constraint
SolucionesCSP(p) ==
    {a \in [ToSet(p.variables) -> UNION {ToSet(p.dominios[v]) : v \in ToSet(p.variables)}] :
        EsCompletaCSP(a, p) /\ RespetaRestricciones(a, p.restricciones)}

\* C24: resolver returns a complete assignment that violates no not-equal
\* constraint whenever one exists, and None only when none exists.
C24_CompletoYCorrecto ==
    (script = VueltaAtras /\ pc = "done")
    => IF solucion.es_none
       THEN SolucionesCSP(problema) = {}
       ELSE solucion.valor \in SolucionesCSP(problema)

\* resolver has returned a solution after taking back a first choice for A
\* that a constraint ruled out further down
C24_Witness ==
    /\ script = VueltaAtras
    /\ pc = "done"
    /\ ~solucion.es_none
    /\ problema.restricciones # <<>>
    /\ solucion.valor["A"] # Head(problema.dominios["A"])

\* resolver has returned None for a problem in which every domain has a value
C24_WitnessNone ==
    /\ script = VueltaAtras
    /\ pc = "done"
    /\ solucion.es_none
    /\ \A v \in ToSet(problema.variables) : problema.dominios[v] # <<>>

-----------------------------------------------------------------------------
(* 005_VueltaAtrasConflictos.py: resolver_con_salto_dirigido *)

VueltaAtrasConflictos == "005_VueltaAtrasConflictos.py"

\* line 7
TAREAS_CBJ == <<"T1", "T2", "T3", "T4">>

\* the task lists the search runs over: the script's, and one task more
ListasDeTareas == {TAREAS_CBJ, TAREAS_CBJ \o <<"T5">>}

RECURSIVE ListasDeReglas(_, _)
\* for each of the first n tasks of ts, a list of tasks that come before it
ListasDeReglas(ts, n) ==
    IF n = 0 THEN {<<>>}
    ELSE {Append(f, l) : f \in ListasDeReglas(ts, n - 1),
                         l \in Sublistas(SubSeq(ts, 1, n - 1))}

\* the rule tables for the tasks ts: as in the script, the rule of a task
\* lists tasks that come before it in TAREAS, any of them
ReglasPosibles(ts) ==
    {[t \in ToSet(ts) |-> f[IndexOf(ts, t)]] : f \in ListasDeReglas(ts, Len(ts))}

\* the problems: a task list, the slots 1..k, a rule table
ProblemasDeTareas ==
    UNION {{[tareas |-> ts, horarios |-> [i \in 1..k |-> i], reglas |-> r] :
               k \in 0..MaxHorarios, r \in ReglasPosibles(ts)} : ts \in ListasDeTareas}

\* lines 18-29
verificar_conflicto(p, tarea, horario, a) ==
    {p.reglas[tarea][i] : i \in {j \in 1..Len(p.reglas[tarea]) :
        p.reglas[tarea][j] \in DOMAIN a /\ a[p.reglas[tarea][j]] = horario}}

\* line 61, jumping back whatever the inherited conflict set holds
SaltaAtras_siempre(tarea_actual, conflicto_heredado) == TRUE

\* line 61: the task is no part of the conflict of the branch below
SaltaAtras(tarea_actual, conflicto_heredado) == tarea_actual \notin conflicto_heredado

\* the pair a call returns
Par(res, conflicto) == [resultado |-> res, conflicto |-> conflicto]

\* the script has defined the problem (lines 7-14)
InitSaltoDirigido ==
    /\ script = VueltaAtrasConflictos
    /\ factors = <<>>
    /\ CallsIdle
    /\ AlgIdle /\ IdsIdle /\ UcsIdle /\ AstIdle /\ SharedIdle
    /\ BidiIdle /\ NashIdle
    /\ problema \in ProblemasDeTareas
    /\ posibles_valores_corte = <<>>
    /\ asignacion = <<>>
    /\ dominios_de_trabajo = <<>>
    /\ llamadas = <<>>
    /\ devuelto = <<>>
    /\ solucion = <<>>
    /\ pc = "idle"

\* line 80: resolver_con_salto_dirigido({})
LlamarSaltoDirigido ==
    /\ pc = "idle"
    /\ asignacion' = <<>>
    /\ pc' = "call"
    /\ UNCHANGED <<script, veVars, enumVars, resultado, err, algVars, searchVars,
                   bidiVars, nashVars, problema, posibles_valores_corte,
                   dominios_de_trabajo, llamadas, devuelto, solucion>>

\* lines 37-41: resolver_con_salto_dirigido is entered
ResolverConSaltoDirigido ==
    /\ pc = "call"
    /\ IF Cardinality(DOMAIN asignacion) = Len(problema.tareas)
       THEN /\ devuelto' = Par(Hallada(asignacion), {})
            /\ pc' = "return"
            /\ UNCHANGED llamadas
       ELSE /\ llamadas' = Append(llamadas,
                   [tarea_actual |-> PrimeraSinAsignar(problema.tareas, asignacion),
                    pendientes |-> problema.horarios,
                    conflicto_acumulado |-> {}])
            /\ pc' = "for"
            /\ UNCHANGED devuelto
    /\ UNCHANGED <<script, veVars, enumVars, resultado, err, algVars, searchVars,
                   bidiVars, nashVars, problema, posibles_valores_corte, asignacion,
                   dominios_de_trabajo, solucion>>

\* lines 43-52 and 71-73: the next slot of the loop; without a direct
\* conflict it is assigned and the function called, else the causes are kept
ProbarHorario ==
    /\ pc = "for"
    /\ Cima.pendientes # <<>>
    /\ LET horario == Head(Cima.pendientes)
           conflicto_directo ==
               verificar_conflicto(problema, Cima.tarea_actual, horario, asignacion)
       IN  IF conflicto_directo = {}
           THEN /\ asignacion' = Extend(asignacion, Cima.tarea_actual, horario)
                /\ pc' = "call"
                /\ llamadas' = Append(Resto,
                       [Cima EXCEPT !.pendientes = Tail(Cima.pendientes)])
           ELSE /\ llamadas' = Append(Resto,
                       [Cima EXCEPT !.pendientes = Tail(Cima.pendientes),
                                    !.conflicto_acumulado =
                                        Cima.conflicto_acumulado \cup conflicto_directo])
                /\ UNCHANGED <<asignacion, pc>>
    /\ UNCHANGED <<script, veVars, enumVars, resultado, err, algVars, searchVars,
                   bidiVars, nashVars, problema, posibles_valores_corte,
                   dominios_de_trabajo, devuelto, solucion>>

\* line 76: every slot has been tried
HorariosAgotados ==
    /\ pc = "for"
    /\ Cima.pendientes = <<>>
    /\ llamadas' = Resto
    /\ devuelto' = Par(Ninguno, Cima.conflicto_acumulado)
    /\ pc' = "return"
    /\ UNCHANGED <<script, veVars, enumVars, resultado, err, algVars, searchVars,
                   bidiVars, nashVars, problema, posibles_valores_corte, asignacion,
                   dominios_de_trabajo, solucion>>

\* lines 52-69: the recursive call has returned to the loop that made it
RetomarSaltoDirigido ==
    /\ pc = "return"
    /\ llamadas # <<>>
    /\ LET conflicto_heredado == devuelto.conflicto
       IN  IF Truthy(devuelto.resultado)
           THEN /\ llamadas' = Resto
                /\ devuelto' = Par(devuelto.resultado, {})
                /\ UNCHANGED <<asignacion, pc>>
           ELSE IF SaltaAtras(Cima.tarea_actual, conflicto_heredado)
           THEN /\ asignacion' = Quitar(asignacion, Cima.tarea_actual)
                /\ llamadas' = Resto
                /\ devuelto' = Par(Ninguno, conflicto_heredado)
                /\ UNCHANGED pc
           ELSE /\ llamadas' = Append(Resto,
                       [Cima EXCEPT !.conflicto_acumulado =
                           Cima.conflicto_acumulado
                               \cup (conflicto_heredado \ {Cima.tarea_actual})])
                /\ asignacion' = Quitar(asignacion, Cima.tarea_actual)
                /\ pc' = "for"
                /\ UNCHANGED devuelto
    /\ UNCHANGED <<script, veVars, enumVars, resultado, err, algVars, searchVars,
                   bidiVars, nashVars, problema, posibles_valores_corte,
                   dominios_de_trabajo, solucion>>

\* line 80: the outermost call has returned to the script
TerminarSaltoDirigido ==
    /\ pc = "return"
    /\ llamadas = <<>>
    /\ solucion' = devuelto.resultado
    /\ pc' = "done"
    /\ UNCHANGED <<script, veVars, enumVars, resultado, err, algVars, searchVars,
                   bidiVars, nashVars, problema, posibles_valores_corte, asignacion,
                   dominios_de_trabajo, llamadas, devuelto>>

NextSaltoDirigido ==
    \/ LlamarSaltoDirigido
    \/ ResolverConSaltoDirigido
    \/ ProbarHorario
    \/ HorariosAgotados
    \/ RetomarSaltoDirigido
    \/ TerminarSaltoDirigido

SpecSaltoDirigido == InitSaltoDirigido /\ [][NextSaltoDirigido]_vars

\* in a, no assigned task has the slot of an assigned task it conflicts with
SinConflictos(p, a) ==
    \A t \in DOMAIN a :
        \A i \in 1..Len(p.reglas[t]) :
            p.reglas[t][i] \in DOMAIN a => a[p.reglas[t][i]] # a[t]

\* a is a solution of p
EsSolucionDeTareas(p, a) ==
    /\ DOMAIN a = ToSet(p.tareas)
    /\ \A t \in DOMAIN a : a[t] \in ToSet(p.horarios)
    /\ SinConflictos(p, a)

RECURSIVE Cronologico(_, _)
RECURSIVE CronologicoDesde(_, _, _, _)
\* chronological backtracking: the slots of tarea in order, each kept when
\* it conflicts with nothing assigned and the rest can be completed
CronologicoDesde(p, a, tarea, pendientes) ==
    IF pendientes = <<>> THEN Ninguno
    ELSE LET probado == Extend(a, tarea, Head(pendientes))
             res == IF SinConflictos(p, probado) THEN Cronologico(p, probado) ELSE Ninguno
         IN  IF ~res.es_none THEN res
             ELSE CronologicoDesde(p, a, tarea, Tail(pendientes))

\* what chronological backtracking returns from the partial assignment a
Cronologico(p, a) ==
    IF DOMAIN a = ToSet(p.tareas) THEN Hallada(a)
    ELSE CronologicoDesde(p, a, PrimeraSinAsignar(p.tareas, a), p.horarios)

\* C25: resolver_con_salto_dirigido({}) returns a solution exactly when
\* chronological backtracking over the same tasks, slots and rules finds one,
\* and then the one it finds: no jump back skips a branch with a solution.
C25_IgualQueCronologico ==
    (script = VueltaAtrasConflictos /\ pc = "done")
    => /\ solucion = Cronologico(problema, <<>>)
       /\ ~solucion.es_none => EsSolucionDeTareas(problema, solucion.valor)
       /\ solucion.es_none =>
             ~\E a \in [ToSet(problema.tareas) -> ToSet(problema.horarios)] :
                  EsSolucionDeTareas(problema, a)

\* a call is jumping back over a task that still has slots to try, in a
\* problem that has a solution
C25_Witness ==
    /\ script = VueltaAtrasConflictos
    /\ pc = "return"
    /\ llamadas # <<>>
    /\ devuelto.resultado.es_none
    /\ SaltaAtras(Cima.tarea_actual, devuelto.conflicto)
    /\ Cima.pendientes # <<>>
    /\ ~Cronologico(problema, <<>>).es_none

-----------------------------------------------------------------------------
(* 004_PropRestricciones.py: encontrar_horario with forward checking *)

PropRestricciones == "004_PropRestricciones.py"

\* lines 7-14
TAREAS == <<"T1", "T2", "T3">>

HORARIOS_INICIALES == [t \in ToSet(TAREAS) |-> <<"L", "M", "X">>]

CONFLICTOS == << <<"T1", "T2">>, <<"T1", "T3">>, <<"T2", "T3">> >>

\* the slots a domain can hold, the script's first
OpcionesPosibles == <<"L", "M", "X", "J">>

\* the pairs the conflict list can hold, the script's first
ConflictosPosibles == CONFLICTOS \o << <<"T3", "T1">> >>

\* the problems: the script's tasks; the script's domains or, for each task,
\* a sublist of the first MaxOpciones slots; any of the pairs
ProblemasDeHorarios ==
    {[tareas |-> TAREAS, horarios_iniciales |-> d, conflictos |-> c] :
        d \in [ToSet(TAREAS) ->
                  Sublistas([i \in 1..MaxOpciones |-> OpcionesPosibles[i]])]
              \cup {HORARIOS_INICIALES},
        c \in Sublistas(ConflictosPosibles)}

\* lines 18-26
obtener_vecinos(tarea, conflictos) ==
    LET tocan == SelectSeq(conflictos, LAMBDA c : c[1] = tarea \/ c[2] = tarea)
    IN  [i \in 1..Len(tocan) |-> IF tocan[i][1] = tarea THEN tocan[i][2] ELSE tocan[i][1]]

\* list.remove(x): the first x leaves the list
QuitarPrimero(l, x) == DropAt(l, IndexOf(l, x))

\* lines 52-58, putting nothing back
restaurar_dominios_nada(dominios, podas) == dominios

RECURSIVE restaurar_dominios(_, _)
\* lines 52-58 (and the same loop at lines 46-47): every pruned slot is
\* appended to the list it was taken from
restaurar_dominios(dominios, podas) ==
    IF podas = <<>> THEN dominios
    ELSE LET tarea == Head(podas)[1]
             horario == Head(podas)[2]
         IN  restaurar_dominios(
                 [dominios EXCEPT ![tarea] = Append(dominios[tarea], horario)],
                 Tail(podas))

RECURSIVE Podar(_, _, _, _)
\* lines 36-50: the loop over the neighbours not yet looked at; podas is
\* None on failure
Podar(dominios, vecinos_restantes, horario, podas_realizadas) ==
    IF vecinos_restantes = <<>>
    THEN [fallo |-> FALSE, podas |-> podas_realizadas, dominios |-> dominios]
    ELSE LET vecino == Head(vecinos_restantes)
         IN  IF horario \in ToSet(dominios[vecino])
             THEN LET podado == [dominios EXCEPT
                                    ![vecino] = QuitarPrimero(dominios[vecino], horario)]
                      podas == Append(podas_realizadas, <<vecino, horario>>)
                  IN  IF podado[vecino] = <<>>
                      THEN [fallo |-> TRUE, podas |-> <<>>,
                            dominios |-> restaurar_dominios(podado, podas)]
                      ELSE Podar(podado, Tail(vecinos_restantes), horario, podas)
             ELSE Podar(dominios, Tail(vecinos_restantes), horario, podas_realizadas)

\* lines 28-50: whether it failed, the prunings made and the domains it
\* leaves behind
aplicar_forward_checking(p, tarea, horario, dominios) ==
    Podar(dominios, obtener_vecinos(tarea, p.conflictos), horario, <<>>)

\* the script has defined the problem and copied the domains (lines 7-100)
InitPropRestricciones ==
    /\ script = PropRestricciones
    /\ factors = <<>>
    /\ CallsIdle
    /\ AlgIdle /\ IdsIdle /\ UcsIdle /\ AstIdle /\ SharedIdle
    /\ BidiIdle /\ NashIdle
    /\ problema \in ProblemasDeHorarios
    /\ posibles_valores_corte = <<>>
    /\ asignacion = <<>>
    /\ dominios_de_trabajo = problema.horarios_iniciales
    /\ llamadas = <<>>
    /\ devuelto = <<>>
    /\ solucion = <<>>
    /\ pc = "idle"

\* line 103: encontrar_horario({}, dominios_de_trabajo)
LlamarEncontrarHorario ==
    /\ pc = "idle"
    /\ asignacion' = <<>>
    /\ pc' = "call"
    /\ UNCHANGED <<script, veVars, enumVars, resultado, err, algVars, searchVars,
                   bidiVars, nashVars, problema, posibles_valores_corte,
                   dominios_de_trabajo, llamadas, devuelto, solucion>>

\* lines 65-73: encontrar_horario is entered; the frame also records what
\* the assignment and the domains were at that moment
EncontrarHorario ==
    /\ pc = "call"
    /\ IF Cardinality(DOMAIN asignacion) = Len(problema.tareas)
       THEN /\ devuelto' = Hallada(asignacion)
            /\ pc' = "return"
            /\ UNCHANGED llamadas
       ELSE /\ LET tarea_actual == PrimeraSinAsignar(problema.tareas, asignacion)
               IN  llamadas' = Append(llamadas,
                       [tarea_actual |-> tarea_actual,
                        pendientes |-> dominios_de_trabajo[tarea_actual],
                        podas |-> <<>>,
                        al_entrar |-> [asignacion |-> asignacion,
                                       dominios |-> dominios_de_trabajo],
                        antes |-> dominios_de_trabajo])
            /\ pc' = "for"
            /\ UNCHANGED devuelto
    /\ UNCHANGED <<script, veVars, enumVars, resultado, err, algVars, searchVars,
                   bidiVars, nashVars, problema, posibles_valores_corte, asignacion,
                   dominios_de_trabajo, solucion>>

\* lines 73-85: the next slot of the loop; when the pruning succeeds it is
\* assigned and the function called
ProbarHorarioConPoda ==
    /\ pc = "for"
    /\ Cima.pendientes # <<>>
    /\ LET horario == Head(Cima.pendientes)
           fc == aplicar_forward_checking(problema, Cima.tarea_actual, horario,
                                          dominios_de_trabajo)
       IN  /\ dominios_de_trabajo' = fc.dominios
           /\ llamadas' = Append(Resto,
                  [Cima EXCEPT !.pendientes = Tail(Cima.pendientes),
                               !.podas = fc.podas,
                               !.antes = dominios_de_trabajo])
           /\ IF ~fc.fallo
              THEN /\ asignacion' = Extend(asignacion, Cima.tarea_actual, horario)
                   /\ pc' = "call"
              ELSE UNCHANGED <<asignacion, pc>>
    /\ UNCHANGED <<script, veVars, enumVars, resultado, err, algVars, searchVars,
                   bidiVars, nashVars, problema, posibles_valores_corte, devuelto,
                   solucion>>

\* line 96: every slot has been tried; what the call was entered with goes
\* along with the None it returns
SinHorario ==
    /\ pc = "for"
    /\ Cima.pendientes = <<>>
    /\ llamadas' = Resto
    /\ devuelto' = [es_none |-> TRUE, al_entrar |-> Cima.al_entrar]
    /\ pc' = "return"
    /\ UNCHANGED <<script, veVars, enumVars, resultado, err, algVars, searchVars,
                   bidiVars, nashVars, problema, posibles_valores_corte, asignacion,
                   dominios_de_trabajo, solucion>>

\* lines 85-93: the recursive call has returned to the loop that made it
RetomarHorario ==
    /\ pc = "return"
    /\ llamadas # <<>>
    /\ IF Truthy(devuelto)
       THEN /\ llamadas' = Resto
            /\ UNCHANGED <<asignacion, dominios_de_trabajo, pc>>
       ELSE /\ asignacion' = Quitar(asignacion, Cima.tarea_actual)
            /\ dominios_de_trabajo' = restaurar_dominios(dominios_de_trabajo, Cima.podas)
            /\ pc' = "for"
            /\ UNCHANGED llamadas
    /\ UNCHANGED <<script, veVars, enumVars, resultado, err, algVars, searchVars,
                   bidiVars, nashVars, problema, posibles_valores_corte, devuelto,
                   solucion>>

\* line 103: the outermost call has returned to the script
TerminarHorario ==
    /\ pc = "return"
    /\ llamadas = <<>>
    /\ solucion' = IF devuelto.es_none THEN Ninguno ELSE devuelto
    /\ pc' = "done"
    /\ UNCHANGED <<script, veVars, enumVars, resultado, err, algVars, searchVars,
                   bidiVars, nashVars, problema, posibles_valores_corte, asignacion,
                   dominios_de_trabajo, llamadas, devuelto>>

NextPropRestricciones ==
    \/ LlamarEncontrarHorario
    \/ EncontrarHorario
    \/ ProbarHorarioConPoda
    \/ SinHorario
    \/ RetomarHorario
    \/ TerminarHorario

SpecPropRestricciones == InitPropRestricciones /\ [][NextPropRestricciones]_vars

\* the lists l1 and l2 hold the same values, each as many times
MismosValores(l1, l2) ==
    \A x \in ToSet(l1) \cup ToSet(l2) :
        Cardinality({i \in 1..Len(l1) : l1[i] = x})
            = Cardinality({i \in 1..Len(l2) : l2[i] = x})

\* every domain of d1 holds exactly the values it holds in d2
MismosDominios(d1, d2) ==
    /\ DOMAIN d1 = DOMAIN d2
    /\ \A t \in DOMAIN d1 : MismosValores(d1[t], d2[t])

\* C26: prunings are fully reverted on failure. Whenever the loop of
\* encontrar_horario is back at its head, after aplicar_forward_checking
\* returned None or after backtracking out of an assignment, every domain
\* holds exactly the values it held before that slot was tried, and the
\* assignment is the one the call was entered with; and when
\* encontrar_horario returns None, the assignment and all domains hold the
\* same values as when it was called.
C26_PodasRevertidas ==
    (script = PropRestricciones)
    => /\ (pc = "for" =>
              /\ MismosDominios(dominios_de_trabajo, Cima.antes)
              /\ MismosDominios(dominios_de_trabajo, Cima.al_entrar.dominios)
              /\ asignacion = Cima.al_entrar.asignacion)
       /\ ((pc = "return" /\ devuelto.es_none) =>
              /\ MismosDominios(dominios_de_trabajo, devuelto.al_entrar.dominios)
              /\ asignacion = devuelto.al_entrar.asignacion)

\* encontrar_horario has backtracked out of an assignment whose prunings it
\* put back, which left a domain with its values in another order
C26_Witness ==
    /\ script = PropRestricciones
    /\ pc = "for"
    /\ Cima.podas # <<>>
    /\ dominios_de_trabajo # Cima.al_entrar.dominios

\* aplicar_forward_checking has returned None after pruning a domain, and
\* has put the slot back
C26_WitnessFallo ==
    /\ script = PropRestricciones
    /\ pc = "for"
    /\ Cima.podas = <<>>
    /\ dominios_de_trabajo # Cima.antes

====
